---- MODULE Spec2Model ----
(***************************************************************************)
(* Model of the Facebook Marketplace monitor: the deduplication store      *)
(* (storage.py), the check cycle (monitor.py) and the notification         *)
(* dispatch (notifications.py).                                            *)
(*                                                                         *)
(* Time is counted in ticks of the wall clock; one day is DayTicks ticks.  *)
(* Timestamps are kept as the program keeps them: as ISO strings, compared *)
(* as strings.                                                             *)
(***************************************************************************)
EXTENDS Integers, Sequences, FiniteSets, TLC

\* ------------------------------------------------------------------ bounds
DayTicks == 2       \* clock ticks per day
MaxDays == 1        \* largest retention window (days) that is tried
Horizon == 3        \* ticks the clock may advance beyond its start
MaxPerSearch == 1   \* longest result list of one source query
MaxFaults == 1      \* storage faults (failed writes, damaged files) per run
MaxAttempts == 2    \* the per-id attempt counter saturates here
MaxStreak == 2      \* consecutive failing check cycles that are tried
MaxRetriesTried == 12   \* largest max_retries that is tried
MaxWorkers == 2     \* background threads the API starts in one process

\* --------------------------------------------------------------- constants
check_interval_seconds == 300   \* MonitorConfig, default
retry_delay_seconds == 60       \* MonitorConfig, default
DefaultMaxRetries == 3          \* MonitorConfig.max_retries, default
BackoffStep == 30               \* run: min(30 * retry_count, 300)
BackoffCap == 300
NotifyPause == 1                \* notify_listings: asyncio.sleep(1)

Ids == {"101", "102"}
Titles == {"bike", "bike (reduced)"}
Prices == {"$10", "$20"}
Keywords == <<"bike", "cycle">>

T0 == MaxDays * DayTicks
Times == T0..(T0 + Horizon)

VARIABLES
    listings,       \* ListingStorage._listings: id -> ListingRecord
    file,           \* the backing file (storage_file)
    proc,           \* "up", or "failed" when the constructor raised
    now,            \* the wall clock, datetime.now()
    faultsLeft,     \* storage faults the environment may still inject
    ret,            \* the last Store call: its arguments and what it returned
    cleanup_days,   \* config.monitor.cleanup_days
    pc,             \* where the check cycle stands ("idle": none is running)
    kwIdx,          \* _search_all_keywords: the keyword being searched
    all_listings,   \* _search_all_keywords: all_listings
    batch,          \* unique_listings, the argument of _process_listings
    new_listings,   \* _process_listings: new_listings
    idx,            \* position of the notify loop, then of the mark loop
    success_count,  \* notify_listings: success_count
    result,         \* what the last check_once returned
    elapsed,        \* ticks since the running cycle started
    attempts,       \* per id, the notification attempts made so far
    sent,           \* the attempts of the running cycle, in order
    prevFailed,     \* ids whose transport failed in the last finished cycle
    merged,         \* ids the running cycle found more than once
    paused,         \* seconds the notify loop of the running cycle has slept
    failed_terms,   \* keywords (by position) whose search failed in this cycle
    paced,          \* keywords (by position) whose search was followed by
                    \* the sleep of the keyword loop
    telegram,       \* NotificationManager._telegram is set (Telegram enabled)
    bot,            \* TelegramNotifier._bot: "none" or "ready"
    note,           \* the last notify_listing call made on its own
    max_retries,    \* config.monitor.max_retries
    retry_count,    \* run: retry_count
    naps,           \* run: the sleeps that follow the last check and are not
                    \* over yet, in order
    streak,         \* check cycles in a row that ended in an error
    cycle_error,    \* the last check_once ended in its except branch
    entry,          \* how the process was started: "cli" (monitor.py) or "api"
    running,        \* MarketplaceMonitor._running
    phase,          \* where run stands: "idle", "startup", "loop", ...
    scraper,        \* MarketplaceMonitor.scraper: "none", "open" or "closed"
    closes,         \* calls of scraper.close() made by run
    status,         \* the status messages run has tried to send, in order
    dozing,         \* run is inside an asyncio.sleep of its loop
    exit_by,        \* what made run leave its loop
    whatsapp,       \* config.whatsapp.enabled
    keywords,       \* config.search.keywords
    crashed,        \* ids a process that died in a cycle had found new
    printed,        \* run_once: the counts it has printed
    torn,           \* the Store call a process died in while it saved
    monitor_running,    \* api.monitor_running
    starting,       \* start requests between their test and their assignment
    workers,        \* the threads of background_monitor, each with its state
    lock,           \* ListingStorage._lock: Free, or the worker holding it
    peek,           \* the last read of the map by an API request
    reply           \* the last answer to a start or stop request

storeVars == <<listings, file, proc, now, faultsLeft, ret>>
cycleVars == <<cleanup_days, pc, kwIdx, all_listings, batch, new_listings, idx,
               success_count, result, elapsed, attempts, sent, prevFailed,
               merged, paused, failed_terms, paced>>
chanVars == <<telegram, bot, note>>
loopVars == <<max_retries, retry_count, naps, streak, cycle_error>>
lifeVars == <<entry, phase, scraper, closes, status, dozing, exit_by, whatsapp,
              keywords, crashed, printed, torn>>
runVars == <<running, lifeVars>>
apiVars == <<monitor_running, starting, workers, lock, peek, reply>>
vars == <<storeVars, cycleVars, chanVars, loopVars, runVars, apiVars>>

\* ------------------------------------------------------------ timestamps
\* Characters are their code points: '.' is 46, '0'..'9' are 48..57.
Digit(d) == 48 + d

\* datetime.isoformat(): fixed-width whole part, and a fractional part that
\* is left out when it is zero.
IsoFormat(t) ==
    LET whole == t \div DayTicks
        frac == t % DayTicks
    IN  <<Digit(whole \div 10), Digit(whole % 10)>>
            \o (IF frac = 0 THEN <<>> ELSE <<46, Digit(frac)>>)

\* Python's str < str: lexicographic by code point, a proper prefix is less.
RECURSIVE StrLess(_, _)
StrLess(a, b) ==
    IF a = <<>> THEN b # <<>>
    ELSE IF b = <<>> THEN FALSE
    ELSE IF Head(a) # Head(b) THEN Head(a) < Head(b)
    ELSE StrLess(Tail(a), Tail(b))

\* ---------------------------------------------------------------- records
EmptyMap == [i \in {} |-> 0]

ListingRecord(id, title, first, last, notified) ==
    [listing_id |-> id, title |-> title, first_seen |-> first,
     last_seen |-> last, notified |-> notified]

RecordFields == {"listing_id", "title", "first_seen", "last_seen", "notified"}
RequiredFields == RecordFields \ {"notified"}

\* A to_dict written by hand that forgets the last field.
ToDictCore(r) ==
    [k \in RequiredFields |->
        CASE k = "listing_id" -> r.listing_id
          [] k = "title" -> r.title
          [] k = "first_seen" -> r.first_seen
          [] k = "last_seen" -> r.last_seen]

\* ListingRecord.to_dict: asdict gives every field under its own name.
ToDict(r) ==
    [k \in RecordFields |->
        CASE k = "listing_id" -> r.listing_id
          [] k = "title" -> r.title
          [] k = "first_seen" -> r.first_seen
          [] k = "last_seen" -> r.last_seen
          [] k = "notified" -> r.notified]

\* ListingRecord.from_dict: cls(**data) raises TypeError on a missing
\* required field or an unexpected one; notified defaults to True.
FromDictOk(d) == RequiredFields \subseteq DOMAIN d /\ DOMAIN d \subseteq RecordFields

FromDict(d) ==
    ListingRecord(d["listing_id"], d["title"], d["first_seen"], d["last_seen"],
                  IF "notified" \in DOMAIN d THEN d["notified"] ELSE TRUE)

\* ------------------------------------------------------------------- file
\* kind: "missing", "json" (a JSON object, data: id -> dict), "garbage"
\* (not JSON, e.g. a partly written document) or "unreadable" (open fails).
FileOf(kind, data) == [kind |-> kind, data |-> data]
MissingFile == FileOf("missing", EmptyMap)

\* _save: open("w") then json.dump of every record; IOError is caught.
\*   "ok": written; "open_err": open failed, the file is as before;
\*   "io_err": the write failed after open truncated the file.
SaveOutcomes == {"ok", "open_err", "io_err"}
Save(m, f, outcome) ==
    CASE outcome = "ok" -> FileOf("json", [i \in DOMAIN m |-> ToDict(m[i])])
      [] outcome = "open_err" -> f
      [] outcome = "io_err" -> FileOf("garbage", EmptyMap)

\* _save without its try/except.
SaveRaisesOnFailure(outcome) == outcome # "ok"

\* Whether _save lets the failure out: "except IOError" logs it and returns.
SaveRaises(outcome) == FALSE

\* _load: [raised, map].  Only JSONDecodeError and KeyError are caught.
Load(f) ==
    CASE f.kind = "missing" -> [raised |-> FALSE, map |-> EmptyMap]
      [] f.kind = "garbage" -> [raised |-> FALSE, map |-> EmptyMap]
      [] f.kind = "unreadable" -> [raised |-> TRUE, map |-> EmptyMap]
      [] f.kind = "json" ->
            IF \A i \in DOMAIN f.data : FromDictOk(f.data[i])
            THEN [raised |-> FALSE,
                  map |-> [i \in DOMAIN f.data |-> FromDict(f.data[i])]]
            ELSE [raised |-> TRUE, map |-> EmptyMap]

\* ------------------------------------------------------------ Store calls
NoIds == {}
Ret(op, id, title, notified, ids, days, count, out, saved, raised) ==
    [op |-> op, id |-> id, title |-> title, notified |-> notified, ids |-> ids,
     days |-> days, count |-> count, out |-> out, saved |-> saved,
     raised |-> raised]
NoRet == Ret("none", "", "", FALSE, NoIds, 0, 0, NoIds, "none", FALSE)

\* has_seen
HasSeen(id) == id \in DOMAIN listings

\* The set difference with its operands swapped.
GetNewListingsSwapped(listing_ids) == DOMAIN listings \ listing_ids

\* A lookup that reports every id as new.
GetNewListingsAll(listing_ids) == listing_ids

\* get_new_listings
GetNewListings(listing_ids) == listing_ids \ DOMAIN listings

\* An upsert that replaces the record it finds.
MarkSeenMapOverwrite(m, id, title, notified, t) ==
    [i \in DOMAIN m \cup {id} |->
        IF i = id
        THEN ListingRecord(id, title, IsoFormat(t), IsoFormat(t), notified)
        ELSE m[i]]

\* mark_seen: the map after the call at time t.
MarkSeenMap(m, id, title, notified, t) ==
    IF id \in DOMAIN m
    THEN [m EXCEPT ![id].last_seen = IsoFormat(t)]
    ELSE [i \in DOMAIN m \cup {id} |->
            IF i = id
            THEN ListingRecord(id, title, IsoFormat(t), IsoFormat(t), notified)
            ELSE m[i]]

\* The comparison with <= for <.
OldListingsInclusive(m, cutoff_str) ==
    {i \in DOMAIN m : ~StrLess(cutoff_str, m[i].last_seen)}

\* An eviction that also drops what was never notified.
OldOrUnnotified(m, cutoff_str) ==
    {i \in DOMAIN m : StrLess(m[i].last_seen, cutoff_str) \/ ~m[i].notified}

\* cleanup: the ids it removes, for the cutoff string.
OldListings(m, cutoff_str) ==
    {i \in DOMAIN m : StrLess(m[i].last_seen, cutoff_str)}

Without(m, old) == [i \in DOMAIN m \ old |-> m[i]]

\* Outcomes of _save the environment can produce now.
Outcomes == IF faultsLeft > 0 THEN SaveOutcomes ELSE {"ok"}
Spend(outcome) == IF outcome = "ok" THEN faultsLeft ELSE faultsLeft - 1

MarkSeen(id, title, notified, outcome) ==
    /\ listings' = MarkSeenMap(listings, id, title, notified, now)
    /\ file' = Save(listings', file, outcome)
    /\ faultsLeft' = Spend(outcome)
    /\ ret' = Ret("mark_seen", id, title, notified, NoIds, 0, 0, NoIds,
                  outcome, SaveRaises(outcome))

\* A cleanup whose cutoff is the time of the call, whatever the window.
CleanupNoWindow(days, outcome) ==
    LET cutoff_str == IsoFormat(now)
        old_listings == OldListings(listings, cutoff_str)
    IN  /\ listings' = Without(listings, old_listings)
        /\ IF old_listings # {}
           THEN /\ file' = Save(listings', file, outcome)
                /\ faultsLeft' = Spend(outcome)
                /\ ret' = Ret("cleanup", "", "", FALSE, NoIds, days,
                              Cardinality(old_listings), old_listings,
                              outcome, SaveRaises(outcome))
           ELSE /\ outcome = "ok"
                /\ UNCHANGED <<file, faultsLeft>>
                /\ ret' = Ret("cleanup", "", "", FALSE, NoIds, days, 0, NoIds,
                              "none", FALSE)

\* cleanup
Cleanup(days, outcome) ==
    LET cutoff_str == IsoFormat(now - days * DayTicks)
        old_listings == OldListings(listings, cutoff_str)
    IN  /\ listings' = Without(listings, old_listings)
        /\ IF old_listings # {}
           THEN /\ file' = Save(listings', file, outcome)
                /\ faultsLeft' = Spend(outcome)
                /\ ret' = Ret("cleanup", "", "", FALSE, NoIds, days,
                              Cardinality(old_listings), old_listings,
                              outcome, SaveRaises(outcome))
           ELSE /\ outcome = "ok"
                /\ UNCHANGED <<file, faultsLeft>>
                /\ ret' = Ret("cleanup", "", "", FALSE, NoIds, days, 0, NoIds,
                              "none", FALSE)

\* A clear that empties the map and leaves the file alone.
ClearNoSave(outcome) ==
    /\ listings' = EmptyMap
    /\ UNCHANGED <<file, faultsLeft>>
    /\ ret' = Ret("clear", "", "", FALSE, NoIds, 0, 0, NoIds, outcome,
                  SaveRaises(outcome))

\* clear
Clear(outcome) ==
    /\ listings' = EmptyMap
    /\ file' = Save(listings', file, outcome)
    /\ faultsLeft' = Spend(outcome)
    /\ ret' = Ret("clear", "", "", FALSE, NoIds, 0, 0, NoIds, outcome,
                  SaveRaises(outcome))

\* ListingStorage.__init__ in a new process: _listings = {} and _load().
Construct ==
    LET l == Load(file)
    IN  /\ listings' = l.map
        /\ proc' = IF l.raised THEN "failed" ELSE "up"
        /\ ret' = Ret("load", "", "", FALSE, NoIds, 0, 0, NoIds, "none",
                      l.raised)
        /\ UNCHANGED <<file, faultsLeft>>

\* ---------------------------------------------------- the Store, called
\* directly (the API's entry points and the module's own test calls)
ApiHasSeen ==
    /\ proc = "up" /\ pc = "idle"
    /\ \E id \in Ids :
        ret' = Ret("has_seen", id, "", FALSE, NoIds, 0,
                   IF HasSeen(id) THEN 1 ELSE 0, NoIds, "none", FALSE)
    /\ UNCHANGED <<listings, file, proc, now, faultsLeft, cycleVars, chanVars,
                   loopVars>>
    /\ UNCHANGED <<runVars, apiVars>>

ApiGetNewListings ==
    /\ proc = "up" /\ pc = "idle"
    /\ \E s \in SUBSET Ids :
        ret' = Ret("get_new_listings", "", "", FALSE, s, 0, 0,
                   GetNewListings(s), "none", FALSE)
    /\ UNCHANGED <<listings, file, proc, now, faultsLeft, cycleVars, chanVars,
                   loopVars>>
    /\ UNCHANGED <<runVars, apiVars>>

ApiMarkSeen ==
    /\ proc = "up" /\ pc = "idle"
    /\ \E id \in Ids, title \in Titles, notified \in BOOLEAN,
          outcome \in Outcomes :
        MarkSeen(id, title, notified, outcome)
    /\ UNCHANGED <<proc, now, cycleVars, chanVars, loopVars>>
    /\ UNCHANGED <<runVars, apiVars>>

ApiCleanup ==
    /\ proc = "up" /\ pc = "idle"
    /\ \E days \in 0..MaxDays, outcome \in Outcomes : Cleanup(days, outcome)
    /\ UNCHANGED <<proc, now, cycleVars, chanVars, loopVars>>
    /\ UNCHANGED <<runVars, apiVars>>

ApiClear ==
    /\ proc = "up" /\ pc = "idle"
    /\ \E outcome \in Outcomes : Clear(outcome)
    /\ UNCHANGED <<proc, now, cycleVars, chanVars, loopVars>>
    /\ UNCHANGED <<runVars, apiVars>>

\* The process ends between two cycles (or failed to start) and a new one
\* constructs the Store; it has no bot yet, and run starts with retry_count 0.
Restart ==
    /\ pc = "idle"
    /\ Construct
    /\ bot' = "none"
    /\ retry_count' = 0
    /\ UNCHANGED <<now, cycleVars, telegram, note, max_retries, naps, streak,
                   cycle_error>>
    /\ UNCHANGED <<runVars, apiVars>>

\* The wall clock advances.  Inside a check cycle only mark_seen and cleanup
\* read the clock, so a tick during the search is one before the cycle; the
\* notifying, marking and cleanup of one cycle take less than a day.
Tick ==
    /\ now < T0 + Horizon
    /\ pc \in {"idle", "notify", "mark", "cleanup"}
    /\ pc # "idle" => elapsed < DayTicks - 1
    /\ now' = now + 1
    /\ elapsed' = IF pc = "idle" THEN elapsed ELSE elapsed + 1
    /\ UNCHANGED <<listings, file, proc, faultsLeft, ret, cleanup_days, pc,
                   kwIdx, all_listings, batch, new_listings, idx,
                   success_count, result, attempts, sent, prevFailed, merged,
                   paused, failed_terms, paced, chanVars, loopVars>>
    /\ UNCHANGED <<runVars, apiVars>>

\* The environment damages the backing file: it is deleted, overwritten with
\* something that is not JSON, made unreadable, or one record of the JSON
\* object loses a field or gains an unknown one.
DropField(d) == [k \in DOMAIN d \ {"last_seen"} |-> d[k]]
AddField(d) == [k \in DOMAIN d \cup {"price"} |->
                    IF k = "price" THEN "$1" ELSE d[k]]
DamagedFiles ==
    {MissingFile, FileOf("garbage", EmptyMap), FileOf("unreadable", EmptyMap)}
    \cup (IF file.kind = "json"
          THEN {FileOf("json", [file.data EXCEPT ![i] = DropField(@)])
                    : i \in DOMAIN file.data}
               \cup {FileOf("json", [file.data EXCEPT ![i] = AddField(@)])
                    : i \in DOMAIN file.data}
          ELSE {})

DamageFile ==
    /\ pc = "idle"
    /\ faultsLeft > 0
    /\ \E f \in DamagedFiles : file' = f
    /\ faultsLeft' = faultsLeft - 1
    /\ ret' = NoRet
    /\ UNCHANGED <<listings, proc, now, cycleVars, chanVars, loopVars>>
    /\ UNCHANGED <<runVars, apiVars>>

\* ------------------------------------------------------------ check cycle
\* notifications.Listing, as the source produces it.  Between two
\* observations of one id the other fields may differ: here the price does.
Listing(id, title, price) == [listing_id |-> id, title |-> title, price |-> price]
Listings == {Listing(id, "bike", price) : id \in Ids, price \in Prices}

\* What scraper.search can return for one keyword: any list of listings.
SourceResults == UNION {[1..n -> Listings] : n \in 0..MaxPerSearch}

IdsOf(seq) == {seq[k].listing_id : k \in DOMAIN seq}

\* A deduplication of whole listings instead of their ids.
RECURSIVE DedupeValuesFrom(_, _, _)
DedupeValuesFrom(rest, seen, unique_listings) ==
    IF rest = <<>> THEN unique_listings
    ELSE IF Head(rest) \notin seen
    THEN DedupeValuesFrom(Tail(rest), seen \cup {Head(rest)},
                          Append(unique_listings, Head(rest)))
    ELSE DedupeValuesFrom(Tail(rest), seen, unique_listings)

DedupeByValue(seq) == DedupeValuesFrom(seq, {}, <<>>)

\* _search_all_keywords, "Deduplicate by listing ID".
RECURSIVE DedupeFrom(_, _, _)
DedupeFrom(rest, seen_ids, unique_listings) ==
    IF rest = <<>> THEN unique_listings
    ELSE IF Head(rest).listing_id \notin seen_ids
    THEN DedupeFrom(Tail(rest), seen_ids \cup {Head(rest).listing_id},
                    Append(unique_listings, Head(rest)))
    ELSE DedupeFrom(Tail(rest), seen_ids, unique_listings)

Dedupe(seq) == DedupeFrom(seq, {}, <<>>)

\* _process_listings, "Filter to only new listings".
InNew(l, new_ids) == l.listing_id \in new_ids
FilterNew(seq, new_ids) == SelectSeq(seq, LAMBDA l : InNew(l, new_ids))

Bump(a, id) ==
    [a EXCEPT ![id] = IF @ < MaxAttempts THEN @ + 1 ELSE @]

FailedIn(log) == {log[k].id : k \in {j \in DOMAIN log : ~log[j].ok}}

\* check_once is entered.
CheckStart ==
    /\ proc = "up" /\ pc = "idle"
    /\ pc' = "search"
    /\ kwIdx' = 1
    /\ all_listings' = <<>>
    /\ UNCHANGED <<storeVars, cleanup_days, batch, new_listings, idx,
                   success_count, result, elapsed, attempts, sent, prevFailed,
                   merged, paused, failed_terms, paced, chanVars, loopVars>>
    /\ UNCHANGED <<runVars, apiVars>>

Repeated(seq) ==
    {seq[k].listing_id : k \in {j \in DOMAIN seq :
        \E h \in DOMAIN seq : h # j /\ seq[h].listing_id = seq[j].listing_id}}

\* A keyword loop inside one try: the first failure ends the search.
NextTermStopOnFailure(k, failed) ==
    IF failed \/ k = Len(Keywords) THEN 0 ELSE k + 1

\* The keyword loop: the try is inside the loop, so the next keyword follows
\* whether the search returned or raised.  0: the loop is over.
NextTerm(k, failed) == IF k = Len(Keywords) THEN 0 ELSE k + 1

\* The WebDriver after one scraper.search: _get_driver makes it on first use,
\* and a search that raised may or may not have got as far as having one.
DriverAfter(d, failed) ==
    IF d = "made" THEN (IF failed THEN {"made", "open"} ELSE {"open"}) ELSE {d}

\* "Delay between keyword searches": the sleep stands inside the try, after
\* the search and the extend, so it follows the searches that returned.
PacedAfter(p, k, failed) == IF failed THEN p ELSE p \cup {k}

\* One pass of the keyword loop: scraper.search returns a list, which is
\* appended (and the loop sleeps), or fails, which is logged.  After the
\* last keyword unique_listings is built and returned.
SearchKeyword ==
    /\ pc = "search"
    /\ \E failed \in BOOLEAN :
        /\ IF failed
           THEN /\ UNCHANGED all_listings
                /\ failed_terms' = failed_terms \cup {kwIdx}
           ELSE /\ \E r \in SourceResults : all_listings' = all_listings \o r
                /\ UNCHANGED failed_terms
        /\ paced' = PacedAfter(paced, kwIdx, failed)
        /\ kwIdx' = NextTerm(kwIdx, failed)
        /\ scraper' \in DriverAfter(scraper, failed)
    /\ IF kwIdx' = 0
       THEN /\ batch' = Dedupe(all_listings')
            /\ merged' = Repeated(all_listings')
            /\ pc' = "process"
       ELSE UNCHANGED <<pc, batch, merged>>
    /\ UNCHANGED <<storeVars, cleanup_days, new_listings, idx, success_count,
                   result, elapsed, attempts, sent, prevFailed, paused,
                   chanVars, loopVars>>
    /\ UNCHANGED <<entry, running, phase, closes, status, dozing, exit_by,
                   whatsapp, keywords, printed, torn, crashed, apiVars>>

\* A _process_listings that marks what it found new before it notifies.
ProcessListingsMarkFirst ==
    /\ pc = "process"
    /\ LET new_ids == GetNewListings(IdsOf(batch))
       IN  IF batch = <<>> \/ new_ids = {}
           THEN /\ result' = 0
                /\ pc' = "cleanup"
                /\ UNCHANGED <<new_listings, idx, success_count, listings,
                               file>>
           ELSE /\ new_listings' = FilterNew(batch, new_ids)
                /\ idx' = 1
                /\ success_count' = 0
                /\ pc' = "notify"
                /\ listings' = [i \in DOMAIN listings \cup new_ids |->
                                 IF i \in DOMAIN listings THEN listings[i]
                                 ELSE ListingRecord(i, "bike", IsoFormat(now),
                                                    IsoFormat(now), TRUE)]
                /\ file' = Save(listings', file, "ok")
                /\ UNCHANGED result
    /\ all_listings' = <<>>
    /\ UNCHANGED <<proc, now, faultsLeft, ret, cleanup_days, kwIdx, batch,
                   elapsed, attempts, sent, prevFailed, merged, paused,
                   failed_terms, paced, chanVars, loopVars>>
    /\ UNCHANGED <<runVars, apiVars>>

\* A check cycle that ends at the lookup when nothing is new, without its
\* cleanup.
ProcessListingsEndsEarly ==
    /\ pc = "process"
    /\ LET new_ids == GetNewListings(IdsOf(batch))
       IN  IF batch = <<>> \/ new_ids = {}
           THEN /\ result' = 0
                /\ pc' = "idle"
                /\ batch' = <<>>
                /\ merged' = {}
                /\ failed_terms' = {}
                /\ paced' = {}
                /\ prevFailed' = {}
                /\ UNCHANGED <<new_listings, idx, success_count>>
           ELSE /\ new_listings' = FilterNew(batch, new_ids)
                /\ idx' = 1
                /\ success_count' = 0
                /\ pc' = "notify"
                /\ UNCHANGED <<result, batch, merged, failed_terms, paced,
                               prevFailed>>
    /\ all_listings' = <<>>
    /\ UNCHANGED <<storeVars, cleanup_days, kwIdx, elapsed, attempts, sent,
                   paused, chanVars, loopVars>>
    /\ UNCHANGED <<runVars, apiVars>>

\* _process_listings up to the call of notify_listings.
ProcessListings ==
    /\ pc = "process"
    /\ LET new_ids == GetNewListings(IdsOf(batch))
       IN  IF batch = <<>> \/ new_ids = {}
           THEN /\ result' = 0
                /\ pc' = "cleanup"
                /\ UNCHANGED <<new_listings, idx, success_count>>
           ELSE /\ new_listings' = FilterNew(batch, new_ids)
                /\ idx' = 1
                /\ success_count' = 0
                /\ pc' = "notify"
                /\ UNCHANGED result
    /\ all_listings' = <<>>
    /\ UNCHANGED <<storeVars, cleanup_days, kwIdx, batch, elapsed, attempts,
                   sent, prevFailed, merged, paused, failed_terms, paced,
                   chanVars, loopVars>>
    /\ UNCHANGED <<runVars, apiVars>>

\* A mark loop that skips the listings whose notification failed.
RECURSIVE MarkTargetsDelivered(_, _)
MarkTargetsDelivered(new, log) ==
    IF new = <<>> THEN <<>>
    ELSE (IF Head(log).ok THEN <<Head(new)>> ELSE <<>>)
            \o MarkTargetsDelivered(Tail(new), Tail(log))

\* A mark loop over everything the cycle observed.
MarkTargetsObserved(new, log) == batch

\* "Mark all as seen": every new listing, whatever notify_listing returned.
MarkTargets(new, log) == new

\* ------------------------------------------------------------ the run loop
Nap(kind, secs) == [kind |-> kind, secs |-> secs]
Min(a, b) == IF a < b THEN a ELSE b

\* A loop that goes on to the next check without its sleep.
ReturnedNoSleep(err) ==
    /\ retry_count' = 0
    /\ naps' = <<>>
    /\ streak' = IF err THEN streak + 1 ELSE 0
    /\ cycle_error' = err
    /\ UNCHANGED max_retries

\* run, after check_once returned: "Reset on success" and the wait for the
\* next check.  err: check_once went through its own except branch.
\* run_once has no loop around its check_once: no sleep is ahead there.
Returned(err) ==
    /\ retry_count' = 0
    /\ naps' = IF entry = "once"
               THEN <<>>
               ELSE <<Nap("interval", check_interval_seconds)>>
    /\ streak' = IF err THEN streak + 1 ELSE 0
    /\ cycle_error' = err
    /\ UNCHANGED max_retries

\* A handler that gives the monitor up.
AbandonAndStop ==
    /\ running' = FALSE
    /\ pc' = "idle"
    /\ result' = 0
    /\ all_listings' = <<>>
    /\ batch' = <<>>
    /\ new_listings' = <<>>
    /\ idx' = 0
    /\ success_count' = 0
    /\ elapsed' = 0
    /\ sent' = <<>>
    /\ prevFailed' = FailedIn(sent)
    /\ merged' = {}
    /\ paused' = 0
    /\ failed_terms' = {}
    /\ paced' = {}
    /\ Returned(TRUE)

\* check_once, "except Exception": the error is logged and 0 is returned,
\* so run goes on as after any other return; nothing stops the monitor.
Abandon ==
    /\ UNCHANGED running
    /\ pc' = "idle"
    /\ result' = 0
    /\ all_listings' = <<>>
    /\ batch' = <<>>
    /\ new_listings' = <<>>
    /\ idx' = 0
    /\ success_count' = 0
    /\ elapsed' = 0
    /\ sent' = <<>>
    /\ prevFailed' = FailedIn(sent)
    /\ merged' = {}
    /\ paused' = 0
    /\ failed_terms' = {}
    /\ paced' = {}
    /\ Returned(TRUE)

\* An unexpected exception inside the try of check_once (for one, the
\* TypeError of cleanup's string comparison when a loaded record holds a
\* last_seen that is not a string).
CycleFault ==
    /\ pc \in {"search", "process", "notify", "mark", "cleanup"}
    /\ streak < MaxStreak
    /\ Abandon
    /\ kwIdx' = 0
    /\ UNCHANGED <<storeVars, cleanup_days, attempts, chanVars>>
    /\ UNCHANGED <<lifeVars, apiVars>>

\* ---------------------------------------------------------- notifications
\* send_listing without the text-only fallback.
SendListingNoFallback(b, has_image, bot_ok, photo_ok, text_ok) ==
    IF b = "none" /\ ~bot_ok
    THEN [value |-> FALSE, raised |-> FALSE, bot |-> "none", calls |-> <<"bot">>]
    ELSE LET made == IF b = "none" THEN <<"bot">> ELSE <<>>
         IN  IF has_image
             THEN [value |-> photo_ok, raised |-> FALSE, bot |-> "ready",
                   calls |-> made \o <<"photo">>]
             ELSE [value |-> text_ok, raised |-> FALSE, bot |-> "ready",
                   calls |-> made \o <<"text">>]

\* TelegramNotifier.send_listing.  b is _bot; the environment decides whether
\* the listing has an image_url and whether creating the bot, send_photo and
\* send_message succeed.  calls: what was called, in order.  Every exception
\* is caught by "except Exception" and gives False.
SendListing(b, has_image, bot_ok, photo_ok, text_ok) ==
    IF b = "none" /\ ~bot_ok
    THEN [value |-> FALSE, raised |-> FALSE, bot |-> "none", calls |-> <<"bot">>]
    ELSE LET made == IF b = "none" THEN <<"bot">> ELSE <<>>
         IN  IF has_image
             THEN IF photo_ok
                  THEN [value |-> TRUE, raised |-> FALSE, bot |-> "ready",
                        calls |-> made \o <<"photo">>]
                  ELSE [value |-> text_ok, raised |-> FALSE, bot |-> "ready",
                        calls |-> made \o <<"photo", "text">>]
             ELSE [value |-> text_ok, raised |-> FALSE, bot |-> "ready",
                   calls |-> made \o <<"text">>]

\* NotificationManager.notify_listing.
NotifyListing(tg, b, has_image, bot_ok, photo_ok, text_ok) ==
    IF tg
    THEN SendListing(b, has_image, bot_ok, photo_ok, text_ok)
    ELSE [value |-> FALSE, raised |-> FALSE, bot |-> b, calls |-> <<>>]

NoNote ==
    [op |-> "none", telegram |-> FALSE, bot |-> "none", has_image |-> FALSE,
     bot_ok |-> FALSE, photo_ok |-> FALSE, text_ok |-> FALSE, value |-> FALSE,
     raised |-> FALSE, calls |-> <<>>]

\* notify_listing called on its own (main, --test-notify).
TestNotify ==
    /\ proc = "up" /\ pc = "idle"
    /\ \E has_image, bot_ok, photo_ok, text_ok \in BOOLEAN :
        LET r == NotifyListing(telegram, bot, has_image, bot_ok, photo_ok,
                               text_ok)
        IN  /\ note' = [op |-> "notify_listing", telegram |-> telegram,
                        bot |-> bot, has_image |-> has_image,
                        bot_ok |-> bot_ok, photo_ok |-> photo_ok,
                        text_ok |-> text_ok, value |-> r.value,
                        raised |-> r.raised, calls |-> r.calls]
            /\ bot' = r.bot
    /\ UNCHANGED <<telegram, storeVars, cycleVars, loopVars>>
    /\ UNCHANGED <<runVars, apiVars>>

\* A count of the attempts instead of the deliveries.
CountAttempts(count, ok) == count + 1

\* notify_listings: success_count after notify_listing returned ok.
CountSuccess(count, ok) == IF ok THEN count + 1 ELSE count

\* A pause after the deliveries only.
PauseAfterDelivery(ok) == IF ok THEN NotifyPause ELSE 0

\* notify_listings: the sleep that follows every notify_listing.
PauseAfter(ok) == NotifyPause

\* What notify_listing can return now, over everything the environment may
\* decide.
NotifyResults ==
    {NotifyListing(telegram, bot, has_image, bot_ok, photo_ok, text_ok) :
        has_image \in BOOLEAN, bot_ok \in BOOLEAN, photo_ok \in BOOLEAN,
        text_ok \in BOOLEAN}

\* One pass of the loop of notify_listings: notify_listing, then the sleep.
\* After the last pass new_listings moves on to the mark loop.
NotifyOne ==
    /\ pc = "notify"
    /\ \E r \in NotifyResults :
        /\ bot' = r.bot
        /\ attempts' = Bump(attempts, new_listings[idx].listing_id)
        /\ IF r.raised
           THEN Abandon
           ELSE /\ sent' = Append(sent, [id |-> new_listings[idx].listing_id,
                                         ok |-> r.value])
                /\ success_count' = CountSuccess(success_count, r.value)
                /\ paused' = paused + PauseAfter(r.value)
                /\ IF idx < Len(new_listings)
                   THEN /\ idx' = idx + 1
                        /\ UNCHANGED <<pc, new_listings, result>>
                   ELSE /\ new_listings' = MarkTargets(new_listings, sent')
                        /\ IF new_listings' = <<>>
                           THEN /\ pc' = "cleanup"
                                /\ idx' = 0
                                /\ result' = success_count'
                           ELSE /\ pc' = "mark"
                                /\ idx' = 1
                                /\ UNCHANGED result
                /\ UNCHANGED <<all_listings, batch, elapsed, prevFailed,
                               merged, failed_terms, paced, loopVars, running>>
    /\ UNCHANGED <<storeVars, cleanup_days, kwIdx, telegram, note>>
    /\ UNCHANGED <<lifeVars, apiVars>>

\* One pass of the loop "Mark all as seen"; after the last, _process_listings
\* returns success_count.
MarkOne ==
    /\ pc = "mark"
    /\ \E outcome \in Outcomes :
        /\ MarkSeen(new_listings[idx].listing_id, new_listings[idx].title,
                    TRUE, outcome)
        /\ IF SaveRaises(outcome)
           THEN Abandon
           ELSE /\ IF idx = Len(new_listings)
                   THEN pc' = "cleanup" /\ result' = success_count /\ idx' = 0
                   ELSE idx' = idx + 1 /\ UNCHANGED <<pc, result>>
                /\ UNCHANGED <<all_listings, batch, new_listings,
                               success_count, elapsed, sent, prevFailed,
                               merged, paused, failed_terms, paced, loopVars,
                               running>>
    /\ UNCHANGED <<proc, now, cleanup_days, kwIdx, attempts, chanVars>>
    /\ UNCHANGED <<lifeVars, apiVars>>

\* "Cleanup old entries", and check_once returns notification_count to run.
CleanupStep ==
    /\ pc = "cleanup"
    /\ \E outcome \in Outcomes :
        /\ Cleanup(cleanup_days, outcome)
        /\ IF SaveRaises(outcome)
           THEN Abandon
           ELSE /\ pc' = "idle"
                /\ all_listings' = <<>>
                /\ batch' = <<>>
                /\ new_listings' = <<>>
                /\ success_count' = 0
                /\ elapsed' = 0
                /\ sent' = <<>>
                /\ prevFailed' = FailedIn(sent)
                /\ merged' = {}
                /\ paused' = 0
                /\ failed_terms' = {}
                /\ paced' = {}
                /\ Returned(FALSE)
                /\ UNCHANGED <<idx, result, running>>
    /\ UNCHANGED <<proc, now, cleanup_days, kwIdx, attempts, chanVars>>
    /\ UNCHANGED <<lifeVars, apiVars>>

Backoff(n) == Min(BackoffStep * n, BackoffCap)

\* The cooldown without the reset of the counter.
OnCheckFailedNoReset(count, max) ==
    LET n == count + 1
    IN  IF n >= max
        THEN [retry_count |-> n,
              naps |-> <<Nap("cooldown", retry_delay_seconds),
                         Nap("backoff", Backoff(n))>>]
        ELSE [retry_count |-> n, naps |-> <<Nap("backoff", Backoff(n))>>]

\* run, "except Exception": retry_count and the sleeps after check_once
\* raised with retry_count = count.
OnCheckFailed(count, max) ==
    LET n == count + 1
    IN  IF n >= max
        THEN [retry_count |-> 0,
              naps |-> <<Nap("cooldown", retry_delay_seconds),
                         Nap("backoff", Backoff(0))>>]
        ELSE [retry_count |-> n, naps |-> <<Nap("backoff", Backoff(n))>>]

\* The loop of run around a check_once that returns,
CheckReturns ==
    /\ proc = "up" /\ pc = "idle"
    /\ Returned(FALSE)
    /\ UNCHANGED <<storeVars, cycleVars, chanVars>>
    /\ UNCHANGED <<runVars, apiVars>>

\* and around one that raises.
CheckRaises ==
    /\ proc = "up" /\ pc = "idle"
    /\ streak <= MaxRetriesTried
    /\ LET h == OnCheckFailed(retry_count, max_retries)
       IN  retry_count' = h.retry_count /\ naps' = h.naps
    /\ streak' = streak + 1
    /\ cycle_error' = TRUE
    /\ UNCHANGED <<max_retries, storeVars, cycleVars, chanVars>>
    /\ UNCHANGED <<runVars, apiVars>>

\* --------------------------------------------------- run, start to end
\* Config.validate: the errors it lists.
Validate(tg, wa, kws) ==
    (IF ~tg /\ ~wa THEN {"No notification method configured"} ELSE {})
    \cup (IF kws = <<>> THEN {"No search keywords configured"} ELSE {})

\* run up to the validation: with errors it returns there, without it makes
\* the scraper (which has no WebDriver yet).
RunStart ==
    /\ entry = "cli" /\ proc = "up" /\ phase = "idle"
    /\ running' = TRUE
    /\ IF Validate(telegram, whatsapp, keywords) # {}
       THEN phase' = "rejected" /\ UNCHANGED scraper
       ELSE phase' = "startup" /\ scraper' = "made"
    /\ UNCHANGED <<entry, closes, status, dozing, exit_by, whatsapp, keywords,
                   printed, torn, crashed>>
    /\ UNCHANGED <<storeVars, cycleVars, chanVars, loopVars, apiVars>>

\* send_status_message: TelegramNotifier.send_message makes the bot on first
\* use and catches every Exception.
BotAfterStatus == IF telegram /\ bot = "none" THEN {"none", "ready"} ELSE {bot}

\* The startup notification and "retry_count = 0"; the loop is next.
Startup ==
    /\ phase = "startup"
    /\ status' = Append(status, "started")
    /\ bot' \in BotAfterStatus
    /\ retry_count' = 0
    /\ naps' = <<>>
    /\ phase' = "loop"
    /\ UNCHANGED <<entry, running, scraper, closes, dozing, exit_by, whatsapp,
                   keywords, printed, torn, crashed>>
    /\ UNCHANGED <<storeVars, cycleVars, telegram, note, max_retries, streak,
                   cycle_error, apiVars>>

\* A loop that never tests the flag ("while True").
IterateForever ==
    /\ entry = "cli" /\ phase = "loop"
    /\ naps = <<>> /\ ~dozing
    /\ CheckStart

\* "while self._running" finds the flag set and check_once is entered.
Iterate ==
    /\ entry = "cli" /\ phase = "loop"
    /\ running
    /\ naps = <<>> /\ ~dozing
    /\ CheckStart

\* The loop calls asyncio.sleep for the next of its sleeps,
SleepBegin ==
    /\ phase = "loop" /\ pc = "idle"
    /\ naps # <<>> /\ ~dozing
    /\ dozing' = TRUE
    /\ UNCHANGED <<entry, running, phase, scraper, closes, status, exit_by,
                   whatsapp, keywords, printed, torn, crashed>>
    /\ UNCHANGED <<storeVars, cycleVars, chanVars, loopVars, apiVars>>

\* asyncio.sleep returns after its full time: this sleep is done.
Wake(n) == Tail(n)

\* and the sleep returns.
SleepEnd ==
    /\ phase = "loop" /\ dozing
    /\ dozing' = FALSE
    /\ naps' = Wake(naps)
    /\ UNCHANGED <<entry, running, phase, scraper, closes, status, exit_by,
                   whatsapp, keywords, printed, torn, crashed>>
    /\ UNCHANGED <<storeVars, cycleVars, chanVars, max_retries, retry_count,
                   streak, cycle_error, apiVars>>

\* stop, called by the signal handler of main: it only clears the flag.
Stop ==
    /\ entry = "cli" /\ phase \in {"startup", "loop"}
    /\ running
    /\ running' = FALSE
    /\ UNCHANGED <<lifeVars, storeVars, cycleVars, chanVars, loopVars, apiVars>>

\* FacebookMarketplaceScraper.close: quits the WebDriver if there is one.
Close(d) == IF d = "open" THEN "closed" ELSE d

\* A shutdown that forgets the scraper.
ShutdownNoClose(by) ==
    /\ running' = FALSE
    /\ UNCHANGED <<scraper, closes>>
    /\ status' = Append(status, "stopped")
    /\ bot' \in BotAfterStatus
    /\ phase' = "stopped"
    /\ exit_by' = by

\* The finally of run: shutdown clears the flag, closes the scraper and
\* sends the shutdown notification.
Shutdown(by) ==
    /\ running' = FALSE
    /\ scraper' = Close(scraper)
    /\ closes' = IF scraper = "open" THEN closes + 1 ELSE closes
    /\ status' = Append(status, "stopped")
    /\ bot' \in BotAfterStatus
    /\ phase' = "stopped"
    /\ exit_by' = by

\* "while self._running" finds the flag cleared: the loop is left.
LoopExit ==
    /\ phase = "loop" /\ pc = "idle"
    /\ naps = <<>> /\ ~dozing
    /\ ~running
    /\ Shutdown("stop")
    /\ UNCHANGED <<entry, dozing, whatsapp, keywords, printed, torn, crashed>>
    /\ UNCHANGED <<storeVars, cycleVars, telegram, note, loopVars, apiVars>>

\* The loop is left by an exception: the task is cancelled while it awaits
\* (a sleep of the loop, of the keyword loop or of notify_listings), or
\* something that is no Exception is raised anywhere in the loop
\* (SystemExit, KeyboardInterrupt).  The locals of a check cycle are gone.
Interrupt ==
    /\ phase = "loop"
    /\ \E kind \in {"cancel", "error"} :
        /\ kind = "cancel" => dozing \/ pc \in {"search", "notify"}
        /\ Shutdown(kind)
    /\ dozing' = FALSE
    /\ naps' = <<>>
    /\ pc' = "idle"
    /\ kwIdx' = 0
    /\ all_listings' = <<>>
    /\ batch' = <<>>
    /\ new_listings' = <<>>
    /\ idx' = 0
    /\ success_count' = 0
    /\ elapsed' = 0
    /\ sent' = <<>>
    /\ merged' = {}
    /\ paused' = 0
    /\ failed_terms' = {}
    /\ paced' = {}
    /\ UNCHANGED <<entry, whatsapp, keywords, printed, torn, crashed>>
    /\ UNCHANGED <<storeVars, cleanup_days, result, attempts, prevFailed,
                   telegram, note, max_retries, retry_count, streak,
                   cycle_error, apiVars>>

\* The task is cancelled while run awaits its startup notification, before
\* the try of the loop: run is left with no WebDriver made.
StartupCancelled ==
    /\ phase = "startup"
    /\ phase' = "aborted"
    /\ exit_by' = "cancel"
    /\ UNCHANGED <<entry, running, scraper, closes, status, dozing, whatsapp,
                   keywords, printed, torn, crashed>>
    /\ UNCHANGED <<storeVars, cycleVars, chanVars, loopVars, apiVars>>

\* ------------------------------------------------- main, with --once
\* run_once up to the first keyword search: the scraper is made (it has no
\* WebDriver yet) and check_once is entered.  Nothing is validated and no
\* status message is sent.
OnceStart ==
    /\ entry = "once" /\ proc = "up" /\ phase = "idle" /\ pc = "idle"
    /\ scraper' = "made"
    /\ phase' = "once"
    /\ pc' = "search"
    /\ kwIdx' = 1
    /\ all_listings' = <<>>
    /\ UNCHANGED <<entry, running, closes, status, dozing, exit_by, whatsapp,
                   keywords, printed, torn, crashed>>
    /\ UNCHANGED <<storeVars, cleanup_days, batch, new_listings, idx,
                   success_count, result, elapsed, attempts, sent, prevFailed,
                   merged, paused, failed_terms, paced, chanVars, loopVars,
                   apiVars>>

\* A run_once without its try/finally: the scraper is closed after the print
\* only.
OnceReleaseOnReturn(by) ==
    /\ scraper' = IF by = "returned" THEN Close(scraper) ELSE scraper
    /\ closes' = IF by = "returned" /\ scraper = "open"
                 THEN closes + 1 ELSE closes
    /\ phase' = "done"
    /\ exit_by' = by

\* The finally of run_once: monitor.scraper.close().
OnceRelease(by) ==
    /\ scraper' = Close(scraper)
    /\ closes' = IF scraper = "open" THEN closes + 1 ELSE closes
    /\ phase' = "done"
    /\ exit_by' = by

\* check_once returned: its count is printed, then the finally.
OnceFinish ==
    /\ phase = "once" /\ pc = "idle"
    /\ printed' = Append(printed, result)
    /\ OnceRelease("returned")
    /\ UNCHANGED <<entry, running, status, dozing, whatsapp, keywords, torn,
                   crashed>>
    /\ UNCHANGED <<storeVars, cycleVars, chanVars, loopVars, apiVars>>

\* check_once raised what its "except Exception" does not catch (SystemExit,
\* for one): nothing is printed, the finally runs.
OnceInterrupt ==
    /\ phase = "once" /\ pc # "idle"
    /\ OnceRelease("error")
    /\ pc' = "idle"
    /\ kwIdx' = 0
    /\ all_listings' = <<>>
    /\ batch' = <<>>
    /\ new_listings' = <<>>
    /\ idx' = 0
    /\ success_count' = 0
    /\ elapsed' = 0
    /\ sent' = <<>>
    /\ merged' = {}
    /\ paused' = 0
    /\ failed_terms' = {}
    /\ paced' = {}
    /\ UNCHANGED <<entry, running, status, dozing, whatsapp, keywords, printed,
                   torn, crashed>>
    /\ UNCHANGED <<storeVars, cleanup_days, result, attempts, prevFailed,
                   chanVars, loopVars, apiVars>>

\* ------------------------------------- a process that dies while it saves
Torn(op, id, title, notified, days) ==
    [op |-> op, id |-> id, title |-> title, notified |-> notified,
     days |-> days]
NoTorn == Torn("none", "", "", FALSE, 0)

\* The map a Store call hands to _save.
MapAfter(c) ==
    CASE c.op = "mark_seen" ->
            MarkSeenMap(listings, c.id, c.title, c.notified, now)
      [] c.op = "cleanup" ->
            Without(listings,
                    OldListings(listings, IsoFormat(now - c.days * DayTicks)))
      [] c.op = "clear" -> EmptyMap

\* The calls that reach _save now: any mark_seen, a cleanup that removes
\* something, clear.
SaveCalls ==
    {Torn("mark_seen", id, title, notified, 0) :
        id \in Ids, title \in Titles, notified \in BOOLEAN}
    \cup {Torn("cleanup", "", "", FALSE, d) :
            d \in {n \in 0..MaxDays :
                OldListings(listings, IsoFormat(now - n * DayTicks)) # {}}}
    \cup {Torn("clear", "", "", FALSE, 0)}

\* What a process that dies inside _save leaves of the file.  _save opens
\* the file itself with "w" and dumps into it: before the open the file is
\* as it was, from the open to the end of the dump it is empty or holds the
\* beginning of the document, after the dump it holds the new map.
TornFiles(f, m) == {f, FileOf("garbage", EmptyMap), Save(m, f, "ok")}

\* The process dies inside the _save of a Store call (it is killed, or the
\* machine goes down), and a new process constructs the Store from what is
\* left of the file.
CrashInSave ==
    /\ proc = "up" /\ pc = "idle"
    /\ \E c \in SaveCalls :
        \E f \in TornFiles(file, MapAfter(c)) :
            LET l == Load(f)
            IN  /\ torn' = c
                /\ file' = f
                /\ listings' = l.map
                /\ proc' = IF l.raised THEN "failed" ELSE "up"
                /\ ret' = Ret("load", "", "", FALSE, NoIds, 0, 0, NoIds,
                              "none", l.raised)
    /\ bot' = "none"
    /\ retry_count' = 0
    /\ UNCHANGED <<now, faultsLeft, cycleVars, telegram, note, max_retries,
                   naps, streak, cycle_error>>
    /\ UNCHANGED <<entry, running, phase, scraper, closes, status, dozing,
                   exit_by, whatsapp, keywords, printed, crashed, apiVars>>

\* The ids _process_listings found new and has not yet marked.
Unmarked ==
    IF pc = "notify" THEN IdsOf(new_listings)
    ELSE {new_listings[k].listing_id : k \in idx..Len(new_listings)}

\* The process dies inside _process_listings, after get_new_listings and
\* before the mark loop is over (it is killed, or the machine goes down), and
\* a new process constructs the Store from the backing file.
Crash ==
    /\ pc \in {"notify", "mark"}
    /\ crashed' = Unmarked
    /\ Construct
    /\ bot' = "none"
    /\ retry_count' = 0
    /\ pc' = "idle"
    /\ kwIdx' = 0
    /\ all_listings' = <<>>
    /\ batch' = <<>>
    /\ new_listings' = <<>>
    /\ idx' = 0
    /\ success_count' = 0
    /\ elapsed' = 0
    /\ sent' = <<>>
    /\ merged' = {}
    /\ paused' = 0
    /\ failed_terms' = {}
    /\ paced' = {}
    /\ UNCHANGED <<now, cleanup_days, result, attempts, prevFailed, telegram,
                   note, max_retries, naps, streak, cycle_error>>
    /\ UNCHANGED <<entry, running, phase, scraper, closes, status, dozing,
                   exit_by, whatsapp, keywords, printed, torn, apiVars>>

\* ------------------------------------------------------- the API (api.py)
\* Its requests run on threads of their own (threaded=True), and so does every
\* background_monitor; all of them share the one Store of get_storage.  A
\* worker's check cycle is followed here through its calls of the Store: the
\* lookup, then one mark_seen for each id found new.
Free == 0
Reply(op, success, errors) ==
    [op |-> op, success |-> success, errors |-> errors]
NoReply == Reply("none", FALSE, {})
NoPeek == [op |-> "none", locked |-> FALSE, writer |-> Free, dirty |-> FALSE]
NewWorker ==
    [at |-> "boot", scraper |-> "none", closes |-> 0, sees |-> {},
     marking |-> ""]
Alive == {w \in DOMAIN workers : workers[w].at # "done"}

\* start_monitor, "if monitor_running": the request is answered with
\* success false.
StartRefused ==
    /\ entry = "api" /\ proc = "up"
    /\ monitor_running
    /\ reply' = Reply("start", FALSE, {})
    /\ UNCHANGED <<monitor_running, starting, workers, lock, peek>>
    /\ UNCHANGED <<storeVars, cycleVars, chanVars, loopVars, runVars>>

\* start_monitor, "if errors": the request is answered with the errors of
\* validate.
StartInvalid ==
    /\ entry = "api" /\ proc = "up"
    /\ ~monitor_running
    /\ Validate(telegram, whatsapp, keywords) # {}
    /\ reply' = Reply("start", FALSE, Validate(telegram, whatsapp, keywords))
    /\ UNCHANGED <<monitor_running, starting, workers, lock, peek>>
    /\ UNCHANGED <<storeVars, cycleVars, chanVars, loopVars, runVars>>

\* start_monitor up to "monitor_running = True": the flag is found false and
\* the configuration valid.
StartCheck ==
    /\ entry = "api" /\ proc = "up"
    /\ ~monitor_running
    /\ Validate(telegram, whatsapp, keywords) = {}
    /\ starting + Len(workers) < MaxWorkers
    /\ starting' = starting + 1
    /\ UNCHANGED <<monitor_running, workers, lock, peek, reply>>
    /\ UNCHANGED <<storeVars, cycleVars, chanVars, loopVars, runVars>>

\* A start_monitor that starts its thread and leaves the flag as it is.
StartSpawnNoFlag ==
    /\ starting > 0
    /\ starting' = starting - 1
    /\ workers' = Append(workers, NewWorker)
    /\ reply' = Reply("start", TRUE, {})
    /\ UNCHANGED <<monitor_running, lock, peek>>
    /\ UNCHANGED <<storeVars, cycleVars, chanVars, loopVars, runVars>>

\* start_monitor from there: the flag is set, then the thread is started,
\* and the request is answered with success.
StartSpawn ==
    /\ starting > 0
    /\ starting' = starting - 1
    /\ monitor_running' = TRUE
    /\ workers' = Append(workers, NewWorker)
    /\ reply' = Reply("start", TRUE, {})
    /\ UNCHANGED <<lock, peek>>
    /\ UNCHANGED <<storeVars, cycleVars, chanVars, loopVars, runVars>>

\* stop_monitor, "if not monitor_running": answered with success false.
StopRefused ==
    /\ entry = "api" /\ proc = "up"
    /\ ~monitor_running
    /\ reply' = Reply("stop", FALSE, {})
    /\ UNCHANGED <<monitor_running, starting, workers, lock, peek>>
    /\ UNCHANGED <<storeVars, cycleVars, chanVars, loopVars, runVars>>

\* stop_monitor: the flag is cleared, nothing waits for the thread.
StopMonitor ==
    /\ entry = "api"
    /\ monitor_running
    /\ monitor_running' = FALSE
    /\ reply' = Reply("stop", TRUE, {})
    /\ UNCHANGED <<starting, workers, lock, peek>>
    /\ UNCHANGED <<storeVars, cycleVars, chanVars, loopVars, runVars>>

\* background_monitor up to its loop: the monitor and its scraper are made.
WorkerBoot ==
    /\ \E w \in DOMAIN workers :
        /\ workers[w].at = "boot"
        /\ workers' = [workers EXCEPT ![w] = [@ EXCEPT !.at = "top",
                                                       !.scraper = "made"]]
    /\ UNCHANGED <<monitor_running, starting, lock, peek, reply>>
    /\ UNCHANGED <<storeVars, cycleVars, chanVars, loopVars, runVars>>

\* "while monitor_running": a check cycle is next, or the finally that
\* closes the scraper and the end of the thread.
WorkerTest ==
    /\ \E w \in DOMAIN workers :
        /\ workers[w].at = "top"
        /\ workers' = [workers EXCEPT ![w] =
                IF monitor_running
                THEN [@ EXCEPT !.at = "lookup"]
                ELSE [@ EXCEPT !.at = "done",
                               !.scraper = Close(@),
                               !.closes = IF workers[w].scraper = "open"
                                          THEN @ + 1 ELSE @]]
    /\ UNCHANGED <<monitor_running, starting, lock, peek, reply>>
    /\ UNCHANGED <<storeVars, cycleVars, chanVars, loopVars, runVars>>

\* check_once up to the mark loop: the searches, get_new_listings (under the
\* lock) and the notifications of what it reported new.
WorkerLookup ==
    /\ lock = Free
    /\ \E w \in DOMAIN workers, failed \in BOOLEAN, ids \in SUBSET Ids :
        /\ workers[w].at = "lookup"
        /\ failed => ids = {}
        /\ \E d \in DriverAfter(workers[w].scraper, failed) :
            workers' = [workers EXCEPT ![w] =
                [@ EXCEPT !.scraper = d,
                          !.sees = GetNewListings(ids),
                          !.at = IF GetNewListings(ids) = {}
                                 THEN "sleep" ELSE "mark"]]
    /\ UNCHANGED <<monitor_running, starting, lock, peek, reply>>
    /\ UNCHANGED <<storeVars, cycleVars, chanVars, loopVars, runVars>>

\* mark_seen: the lock is taken and the record written to the map,
WorkerMarkBegin ==
    /\ lock = Free
    /\ \E w \in DOMAIN workers :
        /\ workers[w].at = "mark"
        /\ \E id \in workers[w].sees :
            /\ listings' = MarkSeenMap(listings, id, "bike", TRUE, now)
            /\ workers' = [workers EXCEPT ![w] = [@ EXCEPT !.at = "save",
                                                           !.marking = id]]
        /\ lock' = w
    /\ UNCHANGED <<monitor_running, starting, peek, reply>>
    /\ UNCHANGED <<file, proc, now, faultsLeft, ret>>
    /\ UNCHANGED <<cycleVars, chanVars, loopVars, runVars>>

\* then the map is saved and the lock released; after the last id the
\* cycle is over and the worker sleeps the interval.
WorkerMarkEnd ==
    /\ \E w \in DOMAIN workers :
        /\ workers[w].at = "save"
        /\ lock = w
        /\ file' = Save(listings, file, "ok")
        /\ ret' = Ret("mark_seen", workers[w].marking, "bike", TRUE, NoIds, 0,
                      0, NoIds, "ok", FALSE)
        /\ workers' = [workers EXCEPT ![w] =
                [@ EXCEPT !.sees = @ \ {workers[w].marking},
                          !.marking = "",
                          !.at = IF workers[w].sees = {workers[w].marking}
                                 THEN "sleep" ELSE "mark"]]
    /\ lock' = Free
    /\ UNCHANGED <<monitor_running, starting, peek, reply>>
    /\ UNCHANGED <<listings, proc, now, faultsLeft>>
    /\ UNCHANGED <<cycleVars, chanVars, loopVars, runVars>>

\* The worker's asyncio.sleep of the interval returns.
WorkerWake ==
    /\ \E w \in DOMAIN workers :
        /\ workers[w].at = "sleep"
        /\ workers' = [workers EXCEPT ![w] = [@ EXCEPT !.at = "top"]]
    /\ UNCHANGED <<monitor_running, starting, lock, peek, reply>>
    /\ UNCHANGED <<storeVars, cycleVars, chanVars, loopVars, runVars>>

\* The map is not what the backing file holds: a mutation is under way.
Dirty == file # Save(listings, file, "ok") /\ listings # EmptyMap

\* GET /listings: storage._listings is read as it is, without the lock.
GetListings ==
    /\ entry = "api" /\ proc = "up"
    /\ peek' = [op |-> "get_listings", locked |-> FALSE, writer |-> lock,
                dirty |-> Dirty]
    /\ UNCHANGED <<monitor_running, starting, workers, lock, reply>>
    /\ UNCHANGED <<storeVars, cycleVars, chanVars, loopVars, runVars>>

\* GET /status: get_stats reads the map under the lock.
GetStatus ==
    /\ entry = "api" /\ proc = "up"
    /\ lock = Free
    /\ peek' = [op |-> "get_stats", locked |-> TRUE, writer |-> Free,
                dirty |-> Dirty]
    /\ UNCHANGED <<monitor_running, starting, workers, lock, reply>>
    /\ UNCHANGED <<storeVars, cycleVars, chanVars, loopVars, runVars>>

\* DELETE /listings: clear, under the lock.
ClearListings ==
    /\ entry = "api" /\ proc = "up"
    /\ lock = Free
    /\ Clear("ok")
    /\ UNCHANGED <<proc, now>>
    /\ UNCHANGED <<cycleVars, chanVars, loopVars, runVars, apiVars>>

CycleInit ==
    /\ pc = "idle"
    /\ kwIdx = 0
    /\ all_listings = <<>>
    /\ batch = <<>>
    /\ new_listings = <<>>
    /\ idx = 0
    /\ success_count = 0
    /\ result = 0
    /\ elapsed = 0
    /\ attempts = [i \in Ids |-> 0]
    /\ sent = <<>>
    /\ prevFailed = {}
    /\ merged = {}
    /\ paused = 0
    /\ failed_terms = {}
    /\ paced = {}

StoreInit ==
    /\ listings = EmptyMap
    /\ file = MissingFile
    /\ proc = "up"
    /\ now = T0
    /\ ret = NoRet

\* Telegram is the configured channel; with none configured every
\* notify_listing returns False, as when every send fails.
ChanInit ==
    /\ telegram = TRUE
    /\ bot = "none"
    /\ note = NoNote

LoopInit ==
    /\ max_retries = DefaultMaxRetries
    /\ retry_count = 0
    /\ naps = <<>>
    /\ streak = 0
    /\ cycle_error = FALSE

\* The monitor in its loop, started from the command line with Telegram
\* and the keywords configured, its WebDriver running.
RunInit ==
    /\ entry = "cli"
    /\ running = TRUE
    /\ phase = "loop"
    /\ scraper = "open"
    /\ closes = 0
    /\ status = <<"started">>
    /\ dozing = FALSE
    /\ exit_by = "none"
    /\ whatsapp = FALSE
    /\ keywords = Keywords
    /\ crashed = {}
    /\ printed = <<>>
    /\ torn = NoTorn

ApiInit ==
    /\ monitor_running = FALSE
    /\ starting = 0
    /\ workers = <<>>
    /\ lock = Free
    /\ peek = NoPeek
    /\ reply = NoReply

\* --------------------------------------------------------- specifications
\* The monitor on a healthy disk: check cycles, restarts between cycles and
\* the clock.
Init ==
    /\ StoreInit
    /\ CycleInit
    /\ ChanInit
    /\ LoopInit
    /\ RunInit
    /\ ApiInit
    /\ faultsLeft = 0
    /\ cleanup_days \in 0..MaxDays

Next ==
    \/ CheckStart
    \/ SearchKeyword
    \/ ProcessListings
    \/ NotifyOne
    \/ MarkOne
    \/ CleanupStep
    \/ Restart
    \/ Tick

Spec == Init /\ [][Next]_vars

\* The monitor on a disk whose writes may fail.
InitFaulty ==
    /\ StoreInit
    /\ CycleInit
    /\ ChanInit
    /\ LoopInit
    /\ RunInit
    /\ ApiInit
    /\ faultsLeft = MaxFaults
    /\ cleanup_days \in 0..MaxDays

SpecFaulty == InitFaulty /\ [][Next]_vars

\* The Store on a healthy disk, every entry point called in any order.
InitStore ==
    /\ StoreInit
    /\ CycleInit
    /\ ChanInit
    /\ LoopInit
    /\ RunInit
    /\ ApiInit
    /\ faultsLeft = 0
    /\ cleanup_days = MaxDays

NextStore ==
    \/ ApiHasSeen
    \/ ApiGetNewListings
    \/ ApiMarkSeen
    \/ ApiCleanup
    \/ ApiClear
    \/ Restart
    \/ Tick

SpecStore == InitStore /\ [][NextStore]_vars

\* The Store's mutations and restarts on a disk that may fail.
InitDisk ==
    /\ StoreInit
    /\ CycleInit
    /\ ChanInit
    /\ LoopInit
    /\ RunInit
    /\ ApiInit
    /\ faultsLeft = MaxFaults
    /\ cleanup_days = MaxDays

NextDisk ==
    \/ ApiMarkSeen
    \/ ApiCleanup
    \/ ApiClear
    \/ Restart
    \/ Tick
    \/ DamageFile

SpecDisk == InitDisk /\ [][NextDisk]_vars

\* notify_listing on its own, with and without Telegram configured.
InitNotify ==
    /\ StoreInit
    /\ CycleInit
    /\ LoopInit
    /\ RunInit
    /\ ApiInit
    /\ telegram \in BOOLEAN
    /\ bot = "none"
    /\ note = NoNote
    /\ faultsLeft = 0
    /\ cleanup_days = MaxDays

NextNotify ==
    \/ TestNotify
    \/ Restart
    \/ Tick

SpecNotify == InitNotify /\ [][NextNotify]_vars

\* The monitor with check cycles that meet unexpected exceptions.
InitLoop ==
    /\ StoreInit
    /\ CycleInit
    /\ ChanInit
    /\ LoopInit
    /\ RunInit
    /\ ApiInit
    /\ faultsLeft = 0
    /\ cleanup_days = MaxDays

NextLoop ==
    \/ Next
    \/ CycleFault

SpecLoop == InitLoop /\ [][NextLoop]_vars

\* The loop of run, for every max_retries, around a check_once that may
\* raise.
InitBackoff ==
    /\ StoreInit
    /\ CycleInit
    /\ ChanInit
    /\ RunInit
    /\ ApiInit
    /\ max_retries \in 0..MaxRetriesTried
    /\ retry_count = 0
    /\ naps = <<>>
    /\ streak = 0
    /\ cycle_error = FALSE
    /\ faultsLeft = 0
    /\ cleanup_days = MaxDays

NextBackoff ==
    \/ CheckReturns
    \/ CheckRaises

SpecBackoff == InitBackoff /\ [][NextBackoff]_vars

\* The monitor on a healthy disk, with processes that die inside a cycle.
InitCrash ==
    /\ StoreInit
    /\ CycleInit
    /\ ChanInit
    /\ LoopInit
    /\ RunInit
    /\ ApiInit
    /\ faultsLeft = 0
    /\ cleanup_days = MaxDays

NextCrash ==
    \/ Next
    \/ Crash

SpecCrash == InitCrash /\ [][NextCrash]_vars

\* The Store on a healthy disk, with processes that die while they save.
InitTorn ==
    /\ StoreInit
    /\ CycleInit
    /\ ChanInit
    /\ LoopInit
    /\ RunInit
    /\ ApiInit
    /\ faultsLeft = 0
    /\ cleanup_days = MaxDays

NextTorn ==
    \/ ApiMarkSeen
    \/ ApiCleanup
    \/ ApiClear
    \/ Tick
    \/ CrashInSave

SpecTorn == InitTorn /\ [][NextTorn]_vars

\* One invocation with --once, with or without Telegram configured.
InitOnce ==
    /\ StoreInit
    /\ CycleInit
    /\ LoopInit
    /\ ApiInit
    /\ telegram \in BOOLEAN
    /\ bot = "none"
    /\ note = NoNote
    /\ entry = "once"
    /\ running = FALSE
    /\ phase = "idle"
    /\ scraper = "none"
    /\ closes = 0
    /\ status = <<>>
    /\ dozing = FALSE
    /\ exit_by = "none"
    /\ whatsapp = FALSE
    /\ keywords = Keywords
    /\ crashed = {}
    /\ printed = <<>>
    /\ torn = NoTorn
    /\ faultsLeft = MaxFaults
    /\ cleanup_days = MaxDays

NextOnce ==
    \/ OnceStart
    \/ SearchKeyword
    \/ ProcessListings
    \/ NotifyOne
    \/ MarkOne
    \/ CleanupStep
    \/ CycleFault
    \/ Tick
    \/ OnceFinish
    \/ OnceInterrupt

SpecOnce == InitOnce /\ [][NextOnce]_vars

\* The process from its start.  From the command line: run with any
\* configuration, its check cycles on a disk that may fail, stop requests and
\* interruptions.  As the API: its requests and its background threads.
InitRun ==
    /\ StoreInit
    /\ CycleInit
    /\ LoopInit
    /\ ApiInit
    /\ telegram \in BOOLEAN
    /\ bot = "none"
    /\ note = NoNote
    /\ entry \in {"cli", "api"}
    /\ running = FALSE
    /\ phase = "idle"
    /\ scraper = "none"
    /\ closes = 0
    /\ status = <<>>
    /\ dozing = FALSE
    /\ exit_by = "none"
    /\ whatsapp \in BOOLEAN
    /\ keywords \in {<<>>, Keywords}
    /\ crashed = {}
    /\ printed = <<>>
    /\ torn = NoTorn
    /\ faultsLeft = MaxFaults
    /\ cleanup_days = MaxDays

NextRun ==
    \/ RunStart
    \/ Startup
    \/ StartupCancelled
    \/ Iterate
    \/ SearchKeyword
    \/ ProcessListings
    \/ NotifyOne
    \/ MarkOne
    \/ CleanupStep
    \/ CycleFault
    \/ SleepBegin
    \/ SleepEnd
    \/ Stop
    \/ LoopExit
    \/ Interrupt
    \/ StartRefused
    \/ StartInvalid
    \/ StartCheck
    \/ StartSpawn
    \/ StopRefused
    \/ StopMonitor
    \/ WorkerBoot
    \/ WorkerTest
    \/ WorkerLookup
    \/ WorkerMarkBegin
    \/ WorkerMarkEnd
    \/ WorkerWake
    \/ GetListings
    \/ GetStatus
    \/ ClearListings

SpecRun == InitRun /\ [][NextRun]_vars

\* The same under the scheduling of asyncio: a sleep returns when its time is
\* over, the calls a check cycle awaits return, and run goes on from there.
\* Nothing obliges the environment to stop, interrupt or fail anything.
RunFairness ==
    /\ WF_vars(Iterate)
    /\ WF_vars(SearchKeyword)
    /\ WF_vars(ProcessListings)
    /\ WF_vars(NotifyOne)
    /\ WF_vars(MarkOne)
    /\ WF_vars(CleanupStep)
    /\ WF_vars(SleepBegin)
    /\ WF_vars(SleepEnd)
    /\ WF_vars(LoopExit)

SpecRunFair == SpecRun /\ RunFairness

\* ------------------------------------------------------------------ claims
MutatorOps == {"mark_seen", "cleanup", "clear"}
TimesSent(id) == Cardinality({k \in DOMAIN sent : sent[k].id = id})

\* The time an ISO string stands for.
TimeOf(str) == CHOOSE t \in 0..(T0 + Horizon) : IsoFormat(t) = str

(* C1: at-most-once notification.  Over check cycles and restarts between
   them, on a healthy disk, with the configured cleanup in every cycle, no
   id gets a second notification attempt.  Stated for retention windows of
   at least one day. *)
C1_AtMostOnce == cleanup_days >= 1 => \A i \in Ids : attempts[i] <= 1

(* C2, as claimed: an id whose transport failed in a check cycle has a record
   once that cycle has ended, and the cycle that follows makes no attempt
   for it. *)
C2_FailedStaysSeen ==
    /\ pc = "idle" => \A i \in prevFailed : HasSeen(i)
    /\ \A k \in DOMAIN sent : sent[k].id \notin prevFailed

(* C2, amended: the same, for a retention window of at least one day (the
   notifying, marking and cleanup of one cycle take less than a day). *)
C2_FailedStaysSeenWithRetention == cleanup_days >= 1 => C2_FailedStaysSeen

C2_Witness ==
    /\ cleanup_days >= 1
    /\ pc = "cleanup"
    /\ sent = <<>>
    /\ prevFailed # {}
    /\ prevFailed \subseteq IdsOf(batch)
    /\ \A i \in prevFailed : HasSeen(i) /\ attempts[i] = 1

(* C3: cross-term dedup.  The merged batch holds every id of the search
   results once, as its first occurrence and in the order of the first
   occurrences; when the notify loop has ended, every id of the batch that
   had no record got exactly one attempt and no other id got any. *)
NoRepeat(seq) ==
    \A j, k \in DOMAIN seq : seq[j].listing_id = seq[k].listing_id => j = k
FirstIndex(seq, id) ==
    CHOOSE k \in DOMAIN seq :
        /\ seq[k].listing_id = id
        /\ \A j \in 1..(k - 1) : seq[j].listing_id # id
KeepsFirst(all, b) ==
    /\ NoRepeat(b)
    /\ IdsOf(b) = IdsOf(all)
    /\ \A k \in DOMAIN b : b[k] = all[FirstIndex(all, b[k].listing_id)]
    /\ \A j, k \in DOMAIN b :
        j < k => FirstIndex(all, b[j].listing_id) < FirstIndex(all, b[k].listing_id)
C3_CrossTermDedup ==
    /\ pc = "process" => KeepsFirst(all_listings, batch)
    /\ \A i \in Ids : TimesSent(i) <= 1
    /\ (pc = "mark" /\ idx = 1) =>
        \A i \in Ids :
            TimesSent(i) = IF i \in IdsOf(batch) \ DOMAIN listings THEN 1 ELSE 0

C3_Witness ==
    /\ pc = "mark" /\ idx = 1
    /\ \E i \in merged : TimesSent(i) = 1 /\ ~HasSeen(i)

(* C4: get_new_listings(S) returns exactly the ids of S that have no record,
   and the call changes neither the map nor the file. *)
C4_DedupCorrect ==
    [][ret'.op = "get_new_listings" =>
        /\ ret'.out = {i \in ret'.ids : ~HasSeen(i)}
        /\ listings' = listings
        /\ file' = file]_vars

C4_Witness ==
    /\ ret.op = "get_new_listings"
    /\ ret.ids = Ids
    /\ ret.out # {} /\ ret.out # Ids

(* C5: idempotent marking.  mark_seen on an id that has a record changes its
   last_seen to the time of the call and nothing else (first_seen, title and
   notified stay those of the first call); on an id without one it adds the
   record with first_seen = last_seen = the time of the call and the title
   and flag given.  The records of the other ids are unchanged. *)
C5_IdempotentMarking ==
    [][(ret'.op = "mark_seen" /\ now' = now) =>
        LET id == ret'.id
            t == IsoFormat(now)
        IN  /\ DOMAIN listings' = DOMAIN listings \cup {id}
            /\ \A j \in DOMAIN listings \ {id} : listings'[j] = listings[j]
            /\ IF id \in DOMAIN listings
               THEN /\ listings'[id].listing_id = listings[id].listing_id
                    /\ listings'[id].first_seen = listings[id].first_seen
                    /\ listings'[id].title = listings[id].title
                    /\ listings'[id].notified = listings[id].notified
                    /\ listings'[id].last_seen = t
               ELSE listings'[id] =
                        [listing_id |-> id, title |-> ret'.title,
                         first_seen |-> t, last_seen |-> t,
                         notified |-> ret'.notified]]_vars

C5_Witness ==
    /\ ret.op = "mark_seen"
    /\ HasSeen(ret.id)
    /\ listings[ret.id].title # ret.title
    /\ listings[ret.id].notified # ret.notified
    /\ TimeOf(listings[ret.id].first_seen) < TimeOf(listings[ret.id].last_seen)
    /\ listings[ret.id].last_seen = IsoFormat(now)

(* C6: cleanup boundary.  cleanup(days) removes exactly the records whose
   last_seen is strictly before now - days and returns how many; a record at
   the cutoff stays; on an empty store it returns 0; the file is rewritten
   if and only if something was removed. *)
C6_CleanupBoundary ==
    [][(ret'.op = "cleanup" /\ now' = now) =>
        LET cutoff == now - ret'.days * DayTicks
            stale == {i \in DOMAIN listings :
                        TimeOf(listings[i].last_seen) < cutoff}
        IN  /\ listings' = [i \in DOMAIN listings \ stale |-> listings[i]]
            /\ ret'.count = Cardinality(stale)
            /\ ret'.out = stale
            /\ IF stale = {}
               THEN ret'.saved = "none" /\ file' = file
               ELSE /\ ret'.saved = "ok"
                    /\ file'.kind = "json"
                    /\ DOMAIN file'.data = DOMAIN listings']_vars

C6_Witness ==
    /\ ret.op = "cleanup"
    /\ ret.count = 1
    /\ \E i \in DOMAIN listings :
        listings[i].last_seen = IsoFormat(now - ret.days * DayTicks)
    /\ file.kind = "json" /\ DOMAIN file.data = DOMAIN listings

(* C7: eviction is purely time-based.  Of two records with the same
   last_seen, cleanup removes both or neither, whatever their notified
   flags, titles and first_seen. *)
C7_TimeBasedEviction ==
    [][(ret'.op = "cleanup" /\ now' = now) =>
        \A a, b \in DOMAIN listings :
            listings[a].last_seen = listings[b].last_seen =>
                (a \in DOMAIN listings' <=> b \in DOMAIN listings')]_vars

C7_Witness ==
    /\ ret.op = "cleanup"
    /\ ret.days = 0
    /\ \E a, b \in DOMAIN listings :
        /\ listings[a].last_seen = listings[b].last_seen
        /\ listings[a].notified /\ ~listings[b].notified
        /\ listings[a].title # listings[b].title
        /\ listings[a].first_seen # listings[b].first_seen

(* C8: persist-then-acknowledge.  When mark_seen, cleanup or clear has
   written the file without a failure, loading the file gives the map in
   memory. *)
C8_PersistThenAcknowledge ==
    (ret.op \in MutatorOps /\ ret.saved = "ok") =>
        /\ ~Load(file).raised
        /\ Load(file).map = listings

C8_Witness ==
    /\ ret.op = "mark_seen" /\ ret.saved = "ok"
    /\ faultsLeft < MaxFaults
    /\ \E i \in DOMAIN listings : ~listings[i].notified
    /\ Cardinality(DOMAIN listings) = 2

(* C9: a failed write is recoverable.  When the write fails in the mark_seen
   or the cleanup of a check cycle, the call does not raise, the map has
   the change, and the cycle goes on as after a good write. *)
C9_WriteFailureRecoverable ==
    [][(now' = now /\ pc \in {"mark", "cleanup"}
            /\ ret'.saved \in {"open_err", "io_err"}) =>
        /\ ~ret'.raised
        /\ pc = "mark" =>
            /\ ret'.id \in DOMAIN listings'
            /\ IF idx = Len(new_listings)
               THEN pc' = "cleanup" /\ result' = success_count
               ELSE pc' = "mark" /\ idx' = idx + 1
        /\ pc = "cleanup" =>
            /\ ret'.out # {}
            /\ DOMAIN listings' = DOMAIN listings \ ret'.out
            /\ pc' = "idle" /\ result' = result]_vars

C9_Witness ==
    /\ pc = "idle"
    /\ ret.op = "cleanup"
    /\ result > 0
    /\ faultsLeft < MaxFaults
    /\ file.kind # "json"
    /\ listings # EmptyMap

(* C10: constructing the Store never raises: a corrupt or unreadable backing
   file gives an empty map. *)
C10_LoadNeverRaises ==
    ret.op = "load" => (~ret.raised /\ proc = "up")

(* C11: check-cycle result.  When the notifying and marking of a check cycle
   are over, the value the cycle returns is the number of attempts that
   succeeded (0 when nothing was new), every id of the batch has a record,
   and the record of every id that was notified has notified = true. *)
Successes(log) == Cardinality({k \in DOMAIN log : log[k].ok})
C11_CheckCycleResult ==
    pc = "cleanup" =>
        /\ result = Successes(sent)
        /\ sent = <<>> => result = 0
        /\ \A i \in IdsOf(batch) : HasSeen(i)
        /\ \A k \in DOMAIN sent :
            /\ sent[k].id \in IdsOf(batch)
            /\ sent[k].ok => listings[sent[k].id].notified

C11_Witness ==
    /\ pc = "cleanup"
    /\ result = 2
    /\ Len(sent) = 2
    /\ DOMAIN listings = Ids
    /\ \A i \in Ids : listings[i].notified

(* C12: re-observation leaves records untouched.  No step of a check cycle
   before its cleanup changes a record that exists, and the mark_seen calls
   of the cycle are for ids that have no record. *)
C12_ReobservationLeavesRecord ==
    [][(pc \in {"search", "process", "notify", "mark"}) =>
        ((\A i \in DOMAIN listings :
                i \in DOMAIN listings' /\ listings'[i] = listings[i])
         /\ (pc = "mark" /\ now' = now =>
                ret'.op = "mark_seen" /\ ret'.id \notin DOMAIN listings))]_vars

C12_Witness ==
    /\ pc = "cleanup"
    /\ ret.op = "mark_seen"
    /\ \E i \in IdsOf(batch) \ {ret.id} :
        /\ HasSeen(i)
        /\ \A k \in DOMAIN sent : sent[k].id # i
        /\ TimeOf(listings[i].last_seen) < now - elapsed

(* C13: SeenRecord lifecycle.  When the notifying and marking of a check
   cycle are over, every id the cycle observed has a record whose last_seen
   is not before the start of that cycle. *)
C13_LastSeenRefreshed ==
    pc = "cleanup" =>
        \A i \in IdsOf(batch) :
            HasSeen(i) /\ TimeOf(listings[i].last_seen) >= now - elapsed

(* C14: the notified flag tells whether a notification was sent.  When the
   marking of a check cycle is over, the record of every id the cycle
   attempted has notified = true if and only if the attempt succeeded. *)
C14_NotifiedTellsDelivery ==
    pc = "cleanup" =>
        \A k \in DOMAIN sent :
            HasSeen(sent[k].id) /\ (listings[sent[k].id].notified <=> sent[k].ok)

(* C15: notify_listings tolerates partial failure.  In the notify loop the
   attempts made are those for the first items of new_listings, one each and
   in order, whatever their outcomes; success_count is the number of them
   that succeeded; and every attempt made so far has been followed by its
   pause, so that a pause lies between any two sends. *)
InBatchOrder ==
    \A k \in DOMAIN sent : sent[k].id = new_listings[k].listing_id
C15_NotifyListingsPartialFailure ==
    /\ pc = "notify" =>
        /\ Len(sent) = idx - 1
        /\ InBatchOrder
        /\ success_count = Successes(sent)
        /\ paused = Len(sent)
    /\ pc = "mark" =>
        /\ Len(sent) = Len(new_listings)
        /\ InBatchOrder
        /\ success_count = Successes(sent)
        /\ paused = Len(sent)

C15_Witness ==
    /\ pc = "mark"
    /\ Len(sent) = 2
    /\ ~sent[1].ok /\ sent[2].ok
    /\ success_count = 1
    /\ paused = 2

(* C16: notify_listing never raises.  With no channel configured it returns
   false and calls nothing; when the bot cannot be created it returns false;
   when the photo send fails the text send is tried and decides; otherwise
   the photo send, or without an image the text send, decides. *)
Called(what) == \E k \in DOMAIN note.calls : note.calls[k] = what
C16_NotifyListingNeverRaises ==
    note.op = "notify_listing" =>
        /\ ~note.raised
        /\ ~note.telegram => (~note.value /\ note.calls = <<>>)
        /\ (note.telegram /\ note.bot = "none" /\ ~note.bot_ok) =>
            (~note.value /\ ~Called("photo") /\ ~Called("text"))
        /\ (note.telegram /\ (note.bot = "ready" \/ note.bot_ok)) =>
            IF note.has_image
            THEN IF note.photo_ok
                 THEN note.value /\ ~Called("text")
                 ELSE Called("photo") /\ Called("text")
                        /\ note.value = note.text_ok
            ELSE ~Called("photo") /\ Called("text")
                    /\ note.value = note.text_ok

C16_Witness ==
    /\ note.op = "notify_listing"
    /\ note.telegram /\ note.bot = "ready"
    /\ note.has_image /\ ~note.photo_ok /\ note.text_ok
    /\ note.value
    /\ note.calls = <<"photo", "text">>

(* C17: partial-result policy.  Every pass of the keyword loop, failed or
   not, keeps what was collected and goes on to the next keyword; the batch
   holds the ids of everything collected; and in a cycle with a failed term
   every id of the batch that has no record gets its attempt, and every id of
   the batch has a record when the marking is over. *)
C17_PartialResults ==
    [][((pc = "search") =>
            ((kwIdx' = (IF kwIdx = Len(Keywords) THEN 0 ELSE kwIdx + 1))
             /\ (kwIdx < Len(Keywords) => pc' = "search")
             /\ (kwIdx = Len(Keywords) =>
                    pc' = "process" /\ IdsOf(batch') = IdsOf(all_listings'))
             /\ (\A k \in DOMAIN all_listings :
                    k \in DOMAIN all_listings'
                    /\ all_listings'[k] = all_listings[k])))
       /\ ((failed_terms' # {} /\ pc' = "mark" /\ idx' = 1) =>
            (\A i \in IdsOf(batch') \ DOMAIN listings' :
                \E k \in DOMAIN sent' : sent'[k].id = i))
       /\ ((failed_terms' # {} /\ pc' = "cleanup") =>
            (\A i \in IdsOf(batch') : i \in DOMAIN listings'))]_vars

C17_Witness ==
    /\ pc = "cleanup"
    /\ failed_terms = {1}
    /\ sent # <<>>
    /\ \A k \in DOMAIN sent : HasSeen(sent[k].id)

(* C18: retry on cycle failure.  When a check cycle ends in an unexpected
   exception, the loop adds one to its retry counter (or, at the ceiling,
   resets it) and sleeps the backoff or the cooldown, not the interval. *)
C18_RetryOnCycleFailure ==
    [][(pc # "idle" /\ pc' = "idle" /\ cycle_error') =>
        (/\ naps' # <<>>
         /\ naps'[1].kind \in {"backoff", "cooldown"}
         /\ (retry_count' = retry_count + 1
             \/ (retry_count' = 0 /\ retry_count + 1 >= max_retries)))]_vars

(* C19: backoff growth.  After the n-th check cycle in a row that failed,
   with n below max_retries, the loop sleeps min(30 * n, 300). *)
C19_BackoffGrowth ==
    [][(pc # "idle" /\ pc' = "idle" /\ cycle_error' /\ streak' < max_retries) =>
        naps' = <<Nap("backoff", Min(30 * streak', 300))>>]_vars

(* C20, as claimed: at the start of every iteration of the loop
   0 <= retry_count < max_retries. *)
C20_RetryCeiling == 0 <= retry_count /\ retry_count < max_retries

(* C20, amended: for max_retries of at least 1.  When check_once raises and
   the counter reaches max_retries, the loop sleeps the cooldown (and then a
   backoff of length 0) and the counter is 0; below max_retries the counter
   grows by one and the loop sleeps one backoff; at the start of every
   iteration 0 <= retry_count < max_retries. *)
C20_RetryCeilingPositiveMax ==
    [][(max_retries >= 1) =>
        ((0 <= retry_count' /\ retry_count' < max_retries)
         /\ ((streak' = streak + 1 /\ retry_count + 1 >= max_retries) =>
                (retry_count' = 0
                 /\ naps' = <<Nap("cooldown", 60), Nap("backoff", 0)>>))
         /\ ((streak' = streak + 1 /\ retry_count + 1 < max_retries) =>
                (retry_count' = retry_count + 1
                 /\ Len(naps') = 1
                 /\ naps'[1] = Nap("backoff", Min(30 * retry_count', 300)))))
    ]_vars

C20_Witness ==
    /\ max_retries = 3
    /\ streak = 3
    /\ retry_count = 0
    /\ naps = <<Nap("cooldown", 60), Nap("backoff", 0)>>

(* C21: after every check cycle that check_once ends without an error the
   retry counter is 0 and the one sleep ahead is the check interval; no
   check cycle starts while a sleep of the loop is ahead or under way, and
   a sleep that is ahead goes away only by being slept to its end: two check
   cycles of the loop are separated by a sleep. *)
C21_SleepBetweenCycles ==
    [][/\ ((pc # "idle" /\ pc' = "idle" /\ phase' = "loop" /\ ~cycle_error') =>
            (retry_count' = 0
             /\ naps' = <<Nap("interval", check_interval_seconds)>>))
       /\ ((pc = "idle" /\ pc' # "idle") => (naps = <<>> /\ ~dozing))
       /\ ((phase = "loop" /\ phase' = "loop" /\ pc = "idle" /\ pc' = "idle"
            /\ naps' # naps) =>
            (dozing /\ ~dozing' /\ naps' = Tail(naps)))
    ]_vars

C21_Witness ==
    /\ phase = "loop"
    /\ pc = "search"
    /\ ~cycle_error
    /\ \E i \in Ids : attempts[i] > 0

(* C22: when validate reports an error, run executes no check cycle, makes no
   scraper, sends no notification, and ends with the running flag false. *)
C22_FailFast ==
    phase = "rejected" =>
        /\ ~running
        /\ scraper = "none"
        /\ status = <<>>
        /\ pc = "idle"
        /\ \A i \in Ids : attempts[i] = 0

(* C23: once the flag is cleared in a running loop no check cycle starts, at
   most one interval of sleep is still ahead, and the loop reaches its end
   (the shutdown). *)
C23_StopTakesEffect ==
    /\ [][(phase = "loop" /\ ~running) => ~(pc = "idle" /\ pc' # "idle")]_vars
    /\ [](phase = "loop" /\ ~running =>
            /\ Len(naps) <= 1
            /\ \A k \in DOMAIN naps : naps[k].secs <= check_interval_seconds)
    /\ ((phase = "loop" /\ ~running) ~> (phase = "stopped"))

C23_Witness ==
    /\ phase = "stopped"
    /\ exit_by = "stop"
    /\ \E i \in Ids : attempts[i] > 0

(* C24: a stop requested during a sleep of the loop ends the loop without
   the rest of the sleep: with the flag cleared no sleep runs to its end. *)
C24_SleepsCancellable ==
    [][(phase = "loop" /\ dozing /\ ~running) =>
        ~(phase' = "loop" /\ ~dozing' /\ naps' = Tail(naps))]_vars

(* C25: however run leaves its loop (the flag, a cancellation, an exception),
   afterwards the WebDriver, if one was made, has been quit exactly once,
   the shutdown notification has been tried and the running flag is false;
   inside the loop nothing has been released.  Every background thread of
   the API that has ended has quit its WebDriver, if it made one, exactly
   once, and none that is alive has. *)
C25_ScopedRelease ==
    /\ phase = "stopped" =>
        /\ ~running
        /\ scraper \in {"made", "closed"}
        /\ closes = (IF scraper = "closed" THEN 1 ELSE 0)
        /\ status = <<"started", "stopped">>
    /\ phase = "loop" => (closes = 0 /\ scraper \in {"made", "open"})
    /\ \A w \in DOMAIN workers :
        IF workers[w].at = "done"
        THEN /\ workers[w].scraper \in {"made", "closed"}
             /\ workers[w].closes =
                    (IF workers[w].scraper = "closed" THEN 1 ELSE 0)
        ELSE /\ workers[w].closes = 0
             /\ workers[w].scraper \in {"none", "made", "open"}

C25_Witness ==
    /\ phase = "stopped"
    /\ exit_by = "error"
    /\ scraper = "closed"
    /\ closes = 1

(* C26: whatever the order of the API's start and stop requests, at most one
   background thread is alive, no two are inside a check cycle at once, and
   no two have been told by the Store that the same id is new. *)
C26_SingleWorker ==
    /\ Cardinality(Alive) <= 1
    /\ \A v, w \in DOMAIN workers :
        v # w =>
            /\ ~(workers[v].at \in {"lookup", "mark", "save"}
                 /\ workers[w].at \in {"lookup", "mark", "save"})
            /\ workers[v].sees \cap workers[w].sees = {}

(* C27: every read of the Store's map by a request is made holding the
   Store's lock, so none is made while a mutation holds it. *)
C27_StoreMutualExclusion ==
    peek.op # "none" => (peek.locked /\ peek.writer = Free /\ ~peek.dirty)

\* A step of a check cycle in which something failed: a search, a send, a
\* write of the backing file, or the cycle as a whole.
CycleStepFailed ==
    \/ failed_terms' # failed_terms /\ failed_terms' # {}
    \/ Len(sent') > Len(sent) /\ ~sent'[Len(sent')].ok
    \/ ret' # ret /\ ret'.saved \in {"open_err", "io_err"}
    \/ pc # "idle" /\ pc' = "idle" /\ cycle_error' /\ phase' = phase

(* C30: a failure inside a check cycle (of a search, a send, a write, or an
   unexpected exception) leaves the loop running, and from every loop
   between two cycles another check cycle starts unless the loop was told to
   stop or was interrupted. *)
C30_LoopSurvives ==
    /\ [][CycleStepFailed =>
            (running' = running /\ phase' = "loop" /\ proc' = "up")]_vars
    /\ ((phase = "loop" /\ pc = "idle" /\ running)
            ~> (pc = "search" \/ ~running \/ phase # "loop"))

C30_Witness ==
    /\ phase = "loop"
    /\ running
    /\ pc = "search"
    /\ cycle_error
    /\ prevFailed # {}

(* C28: within a check cycle the Store is not written before the notifying
   is over, and mark_seen is called only for an id whose notification has
   been attempted; when the process dies after the lookup and before an id
   is marked, the Store the next process loads has no record of that id, so
   its lookup reports the id as new again. *)
C28_MarkAfterDispatch ==
    [][/\ (pc \in {"process", "notify"} /\ pc' \in {"notify", "mark", "cleanup"}) =>
            (listings' = listings /\ file' = file)
       /\ (pc = "mark" /\ ret' # ret /\ ret'.op = "mark_seen") =>
            (\E k \in DOMAIN sent : sent[k].id = ret'.id)
       /\ (pc \in {"notify", "mark"} /\ pc' = "idle" /\ ret'.op = "load") =>
            (/\ crashed' = Unmarked
             /\ crashed' \cap DOMAIN listings' = {}
             /\ crashed' \ DOMAIN listings' = crashed')
    ]_vars

C28_Witness ==
    /\ crashed # {}
    /\ pc = "notify"
    /\ IdsOf(new_listings) \cap crashed # {}
    /\ \E i \in crashed : attempts[i] > 0

(* C29: when the batch is empty or the Store has a record of every id in
   it, the check cycle goes on to its cleanup with no notification attempt
   and no mark_seen, and returns 0. *)
C29_NoNewIds ==
    [][/\ (pc = "process" /\ IdsOf(batch) \subseteq DOMAIN listings) =>
            (/\ pc' = "cleanup"
             /\ result' = 0
             /\ sent' = sent /\ sent = <<>>
             /\ attempts' = attempts
             /\ listings' = listings
             /\ ret' = ret)
       /\ (pc = "cleanup" /\ sent = <<>>) =>
            (/\ result = 0 /\ result' = 0
             /\ attempts' = attempts
             /\ ret'.op # "mark_seen")
    ]_vars

C29_Witness ==
    /\ pc = "cleanup"
    /\ sent = <<>>
    /\ batch # <<>>
    /\ result = 0
    /\ \E i \in IdsOf(batch) : attempts[i] > 0

(* C32: source pacing.  While the keyword loop runs, every search made so
   far in the cycle was followed by the pacing sleep before the next one
   began, the failed ones included. *)
C32_PacedQueries ==
    pc = "search" => \A k \in 1..(kwIdx - 1) : k \in paced

(* C31: single shot.  An invocation with --once enters check_once once, at
   its start, and never again; it has no sleep of the loop ahead or under
   way; when check_once returns, the count it returned is what is printed;
   and when the invocation is over, whether check_once returned or raised,
   the WebDriver, if one was made, has been quit exactly once. *)
C31_SingleShot ==
    /\ [][/\ ((pc = "idle" /\ pc' # "idle") =>
                (phase = "idle" /\ phase' = "once"))
          /\ (phase' # phase =>
                (\/ phase = "idle" /\ phase' = "once"
                 \/ phase = "once" /\ phase' = "done"))
         ]_vars
    /\ [](~dozing /\ naps = <<>>)
    /\ [](phase \in {"idle", "once"} => (closes = 0 /\ printed = <<>>))
    /\ [](phase = "done" =>
            /\ pc = "idle"
            /\ scraper \in {"made", "closed"}
            /\ closes = (IF scraper = "closed" THEN 1 ELSE 0)
            /\ printed = (IF exit_by = "returned" THEN <<result>> ELSE <<>>))

C31_Witness ==
    /\ phase = "done"
    /\ exit_by = "returned"
    /\ printed = <<2>>
    /\ scraper = "closed"
    /\ closes = 1
    /\ DOMAIN listings = Ids

(* C33, as claimed: clear drops every record and persists the empty state.
   After clear has returned, has_seen is false for every id,
   get_new_listings(S) is S for every set S of ids, and loading the backing
   file gives the empty map. *)
C33_ClearDropsAll ==
    ret.op = "clear" =>
        /\ \A i \in Ids : ~HasSeen(i)
        /\ \A S \in SUBSET Ids : GetNewListings(S) = S
        /\ ~Load(file).raised
        /\ Load(file).map = EmptyMap

(* C33, amended: clear returns without raising, also when the write of the
   file failed; after it has_seen is false for every id and
   get_new_listings(S) is S for every S; and when the write did not fail,
   loading the backing file gives the empty map. *)
C33_ClearDropsAllWhenWritten ==
    ret.op = "clear" =>
        /\ ~ret.raised
        /\ \A i \in Ids : ~HasSeen(i)
        /\ \A S \in SUBSET Ids : GetNewListings(S) = S
        /\ ret.saved = "ok" =>
            /\ ~Load(file).raised
            /\ Load(file).map = EmptyMap

C33_Witness ==
    /\ ret.op = "clear"
    /\ ret.saved = "ok"
    /\ listings = EmptyMap
    /\ file = FileOf("json", EmptyMap)
    /\ now > T0
    /\ faultsLeft < MaxFaults

(* C34: cleanup ends every check cycle.  A check cycle that meets no
   unexpected exception ends in the step that calls cleanup with the
   configured window, and in no other; that step is taken once, from the
   end of the mark loop or from a lookup that found the batch empty or
   nothing new in it; before it no step of the cycle removes a record, and
   when it is reached every id the cycle attempted has been marked. *)
C34_CleanupEndsCycle ==
    [][/\ ((pc # "idle" /\ pc' = "idle") =>
            (pc = "cleanup" /\ ret'.op = "cleanup"
             /\ ret'.days = cleanup_days))
       /\ ((pc = "cleanup" /\ now' = now) => pc' = "idle")
       /\ ((pc \in {"search", "process", "notify", "mark"}) =>
            ((ret' = ret \/ ret'.op = "mark_seen")
             /\ DOMAIN listings \subseteq DOMAIN listings'))
       /\ ((pc = "process" /\ IdsOf(batch) \subseteq DOMAIN listings) =>
            pc' = "cleanup")
       /\ ((pc # "cleanup" /\ pc' = "cleanup") =>
            (pc \in {"process", "mark"}
             /\ \A k \in DOMAIN sent' : sent'[k].id \in DOMAIN listings'))
    ]_vars

C34_Witness ==
    /\ pc = "idle"
    /\ ret.op = "cleanup"
    /\ ret.days = cleanup_days
    /\ result = 2
    /\ DOMAIN listings = Ids

(* C35: a valid configuration gives the dispatcher a channel.  Whenever the
   validation has passed and run is at its startup or in its loop, or the
   API has started a background thread, the notification manager holds a
   notifier it can send through. *)
C35_ChannelWhenValid ==
    (phase \in {"startup", "loop"} \/ workers # <<>>) => telegram

(* C37: the guards of the API's start and stop.  A start request that is
   refused found the flag set, or found it clear and the configuration
   invalid, in which case it answers with the errors of validate; a stop
   request that is refused found the flag clear; a refused request changes
   nothing but the answer.  A start goes on to its thread only when it found
   the flag clear and the configuration valid; when the thread is started
   the flag is set, and a thread enters a check cycle only with the flag
   set. *)
C37_StartStopGuards ==
    [][/\ ((reply' # reply /\ ~reply'.success) =>
            (/\ UNCHANGED <<monitor_running, starting, workers, lock, peek>>
             /\ UNCHANGED <<storeVars, cycleVars, chanVars, loopVars, runVars>>
             /\ reply'.op = "start" =>
                    \/ monitor_running /\ reply'.errors = {}
                    \/ /\ ~monitor_running
                       /\ reply'.errors # {}
                       /\ reply'.errors =
                            Validate(telegram, whatsapp, keywords)
             /\ reply'.op = "stop" => ~monitor_running))
       /\ (starting' > starting =>
            (~monitor_running
             /\ Validate(telegram, whatsapp, keywords) = {}))
       /\ (Len(workers') > Len(workers) =>
            (/\ monitor_running'
             /\ workers'[Len(workers')].at = "boot"
             /\ reply' = Reply("start", TRUE, {})))
       /\ (\A w \in DOMAIN workers :
            (workers[w].at # "lookup" /\ workers'[w].at = "lookup") =>
                monitor_running)
       /\ ((monitor_running /\ ~monitor_running') =>
            reply' = Reply("stop", TRUE, {}))
    ]_vars

C37_Witness ==
    /\ reply = Reply("start", FALSE, {})
    /\ monitor_running
    /\ Len(workers) = 1
    /\ workers[1].at = "mark"

(* C36: a cycle's cleanup keeps what the cycle marked.  For a retention
   window of at least one day, on a disk whose writes may fail: every id
   the check cycle marked has its record when the cleanup of that cycle is
   over; from there to the lookup of the next cycle of the process no
   record goes away; and the lookup reports as new only ids that have no
   record. *)
C36_MarkedSurviveCleanup ==
    [][(cleanup_days >= 1) =>
        (/\ ((pc = "cleanup" /\ pc' = "idle") =>
                (\A i \in IdsOf(new_listings) : i \in DOMAIN listings'))
         /\ ((pc \in {"idle", "search", "process"} /\ ret'.op # "load") =>
                (\A i \in DOMAIN listings : i \in DOMAIN listings'))
         /\ ((pc = "process" /\ pc' = "notify") =>
                (IdsOf(new_listings') \cap DOMAIN listings = {})))
    ]_vars

C36_Witness ==
    /\ cleanup_days >= 1
    /\ pc = "idle"
    /\ ret.op = "cleanup"
    /\ result = 2
    /\ DOMAIN listings = Ids
    /\ \A i \in Ids : TimeOf(listings[i].last_seen) < now

(* C38: the overwrite of the backing file is crash-safe.  When a process
   dies inside the save of mark_seen, cleanup or clear, the Store the next
   process loads holds the map as it was before that call or as the call
   made it. *)
C38_CrashSafe ==
    [][(ret'.op = "load") =>
        (listings' = listings \/ listings' = MapAfter(torn'))]_vars

====
